---- MODULE Spec2Model ----
(***************************************************************************)
(* A model of the fastpg data-access layer:                                *)
(*   - AsyncQuerySet, the lazy query builder   (fastpg/core.py)            *)
(*   - AsyncPostgresDB, one pooled connection  (fastpg/db.py)              *)
(*   - DBConnectionManager, the router         (fastpg/fastpg.py)          *)
(* Each part is a state machine of its own over its own variables; the     *)
(* specifications SpecQS, SpecDB, SpecConn and SpecMgr run one part each.   *)
(***************************************************************************)
EXTENDS Integers, Sequences, FiniteSets, TLC

\* ------------------------------------------------------------------ bounds
\* Builder calls (including resolutions) made on one AsyncQuerySet instance.
MaxCalls == 4
\* Rows a statement may return (and the largest affected-row count).
MaxRows == 2
\* Calls of execute / execute_many made on one connection.
MaxExec == 2
\* Transactions the caller opens itself around such calls.
MaxCallerTxns == 1
\* Largest max_retries and retry_delay a connection is constructed with.
MaxRetries == 4
MaxDelay == 2
\* Entries of a databases configuration.
MaxConfig == 5
\* random.randint(0, MaxSecret) stands for random.randint(0, 9999).
MaxSecret == 1
\* Number of & / | combinations applied to the conditions.
MaxCombine == 2
\* create() / bulk_create() are among the first MaxInserts calls on a builder
MaxInserts == 2
\* FastPG instances constructed
MaxInstances == 3
\* statements one builder hands to a connection
MaxRouted == 2
\* filter() / get() calls that return on one builder
MaxFilters == 2
\* keyword arguments of one update() call, and the values they take
MaxUpdateKws == 2
MaxValue == 2
\* the largest argument of limit() / offset()
MaxLimit == 1
\* coroutines that call get_or_create at the same time
MaxCoroutines == 3
\* calls on one raw query
MaxRawCalls == 2
\* using() calls on one builder
MaxUsing == 2
\* entries of the configuration of a manager that routes statements
MaxRoutedConfig == 3

VARIABLES
    \* --- AsyncQuerySet instance (core.py:52-92)
    action,                 \* self.action
    base_query,             \* self.base_query
    query_executed,         \* self.query_executed
    conditions,             \* self.conditions
    where_conditions,       \* self.where_conditions
    query_param_values,     \* self.query_param_values (its key set)
    records,                \* self.records
    run_select_related,     \* self.run_select_related
    relation,               \* self.relation
    update_clause,          \* self.update_clause
    return_type,            \* self.return_type
    fetch_limit,            \* self.fetch_limit
    fetch_offset,           \* self.fetch_offset
    order_by_fields,        \* self.order_by_fields
    \* --- what the caller and the connections see
    sent,                   \* statements dispatched to a connection, in order
    ret,                    \* outcome of the last call on the builder
    last_op,                \* name of the last call on the builder
    calls,                  \* number of calls made so far
    last_reply,             \* what the connection answered to the last resolution
    first_ret,              \* outcome of the resolution that set query_executed
    cached_awaits,          \* resolutions begun with query_executed already set
    exc_info,               \* what the exception of the last INSERT carried (table name, SQL state)
    call_args,              \* arguments of the last call on the builder, and the answer
                            \* to the INSERT of a create / bulk_create / get_or_create
    run_prefetch_related,   \* self.run_prefetch_related
    prefetches,             \* self.prefetches (the descriptors' dataset names)
    datasets,               \* per descriptor: the set attached to each base object
    prefetch_reply,         \* per descriptor: what its prefetch statement was answered
    ModelMeta_relations     \* self.ModelMeta.relations (NoRelations: Meta declares none)

VARIABLES
    \* --- AsyncPostgresDB.execute / execute_many on one connection (db.py:77-104)
    tx,                     \* every transaction opened on the connection, in order
    db_pc,                  \* where the running call stands
    cur,                    \* the running call
    finished,               \* the calls that have ended, with how they ended
    caller_tx               \* the caller's own open transaction (0: none)

dbvars == <<tx, db_pc, cur, finished, caller_tx>>

VARIABLES
    \* --- AsyncPostgresDB.connect on one connection (db.py:26-61)
    conn_type,              \* self.conn_type
    max_retries,            \* self.max_retries
    retry_delay,            \* self.retry_delay
    database,               \* self.database
    retries,                \* the local `retries` of connect()
    conn_pc,                \* where connect() stands
    attempts,               \* database.connect() calls made so far
    failures,               \* of which failed
    slept                   \* total time spent in asyncio.sleep

connvars == <<conn_type, max_retries, retry_delay, database, retries, conn_pc,
              attempts, failures, slept>>

VARIABLES
    \* --- DBConnectionManager (fastpg.py:25-66)
    databases_config,       \* the configuration, in its (dict) order
    connections,            \* self.connections (its keys)
    read_conn_names,        \* self.read_conn_names
    write_conn_name,        \* self.write_conn_name (0: None)
    mgr_state,              \* "new", "built" or the exception the constructor raised
    transaction,            \* self.transaction (0: None, k: connection k's factory)
    mgr_ret,                \* the last call on the built manager and its outcome
    connection_objs         \* self.connections (its values): where connect() ended on
                            \* each connection, its self.database and whether that is connected

mgrvars == <<databases_config, connections, read_conn_names, write_conn_name, mgr_state,
             transaction, mgr_ret, connection_objs>>

VARIABLES
    \* --- _denormalize_related_data applied to raw joined rows (core.py:108-119)
    raw_rows,               \* self.records as the driver returned them
    items,                  \* the items it returns
    denormalized            \* whether it has run

fnvars == <<raw_rows, items, denormalized>>

VARIABLES
    \* --- Q objects (utils.py:66-159)
    q_a,                    \* a Q built from keyword filters
    q_b,                    \* another, built independently
    q_c,                    \* the latest combination (NoQ: none yet)
    q_ops                   \* combinations applied so far

qvars == <<q_a, q_b, q_c, q_ops>>

VARIABLES
    \* --- Relation(related_model, foreign_field, related_name) (utils.py:19-40)
    rel_args,               \* the arguments of the construction
    rel_obj                 \* what it came to: none yet, the object, or the exception

relvars == <<rel_args, rel_obj>>

VARIABLES
    \* --- the instance registry (fastpg.py:129-169)
    FASTPG_REGISTRY,        \* _FASTPG_REGISTRY: name -> instance (0: no entry)
    CURRENT_FASTPG_NAME,    \* _CURRENT_FASTPG_NAME (a ContextVar, default "default")
    instances,              \* FastPG instances constructed so far
    reg_ret,                \* the last call on the registry and its outcome
    last_created            \* the last successful create_fastpg: its name, its instance, and
                            \* whether create_fastpg / set_current_fastpg left the current name alone since

regvars == <<FASTPG_REGISTRY, CURRENT_FASTPG_NAME, instances, reg_ret, last_created>>

VARIABLES
    \* --- the connections a builder hands its statements to
    \*     (test_project/fastpg/core.py:91-92, 272-274; src/fastpg/core.py:142-145)
    package,                \* the copy of the library the builder's class comes from
    read_connection,        \* self.read_connection
    write_connection,       \* self.write_connection
    used_using,             \* using() was called on the builder
    routed,                 \* the statements handed to a connection, in order: operation, verb, connection
    using_ret               \* the last using() call: its argument and how it ended

routevars == <<package, read_connection, write_connection, used_using, routed, using_ret>>

VARIABLES
    \* --- the conditions of a builder as Q objects (core.py:68-70, 94-99)
    self_conditions,        \* self.conditions: the Q objects held so far
    self_where,             \* self.where_conditions, as the tokens of the expression
    self_params,            \* self.query_param_values
    filter_calls,           \* the Q each returned filter()/get() call was given, in call order
    filter_ret              \* how the last filter()/get() call ended

filtvars == <<self_conditions, self_where, self_params, filter_calls, filter_ret>>

VARIABLES
    \* --- update(**kwargs) as it renders its SET clause (core.py:555-591)
    update_kwargs,          \* the keyword arguments: (key, value) pairs in dict order
    set_clause,             \* self.update_clause: the rendered assignments, in order
    set_params,             \* the set_* entries update() put into self.query_param_values
    update_ret              \* how the call ended

updvars == <<update_kwargs, set_clause, set_params, update_ret>>

VARIABLES
    \* --- coroutines calling get_or_create on one table (core.py:528-537)
    table_rows,             \* the table: for each lookup key, the number of rows that carry it
    unique_lookup,          \* whether the table has a unique constraint on the lookup column
    co_key,                 \* the lookup key of each coroutine
    co_pc,                  \* where each coroutine stands in get_or_create
    co_ret                  \* what get_or_create returned or raised in each coroutine

covars == <<table_rows, unique_lookup, co_key, co_pc, co_ret>>

VARIABLES
    \* --- AsyncRawQuery (core.py:682-747)
    raw_log                 \* the calls made on a raw query: operation, what the connection did, outcome

rawvars == <<raw_log>>

qsvars == <<action, base_query, query_executed, conditions, where_conditions,
            query_param_values, records, run_select_related, relation,
            update_clause, return_type, sent, ret, last_op, calls,
            last_reply, first_ret, cached_awaits, exc_info, call_args,
            run_prefetch_related, prefetches, datasets, prefetch_reply,
            ModelMeta_relations, fetch_limit, fetch_offset, order_by_fields>>

paging == <<fetch_limit, fetch_offset, order_by_fields>>

pfconf == <<run_prefetch_related, prefetches>>
pfres == <<datasets, prefetch_reply>>

\* ------------------------------------------------------------------ values
\* Keyword filters a caller may pass to get()/filter(); NoKw is a call
\* without keyword arguments.
Conds == {"id", "name__gte"}
NoKw == "NoKw"

\* Python's None for where_conditions, kept apart from every rendered clause.
None_where == <<"None">>

\* SQL NULL in a joined row.
NULL == -1

Name(i) == IF i = 1 THEN "A" ELSE IF i = 2 THEN "B" ELSE "C"

\* A value held in self.records or handed to the caller.
NoneVal == [tag |-> "None", rows |-> <<>>, n |-> 0]
IntVal(k) == [tag |-> "int", rows |-> <<>>, n |-> k]
ListVal(s) == [tag |-> "list", rows |-> s, n |-> 0]
ObjVal(o) == [tag |-> "obj", rows |-> <<o>>, n |-> 0]

NoRel == [present |-> FALSE, id |-> NULL, bio |-> ""]

\* A raw row of the base table as the driver returns it.
RawRow(i) == [cls |-> "Record", shape |-> "base", fields |-> [id |-> i, name |-> Name(i)],
              cnt |-> 0, rel |-> NoRel, r_id |-> NULL]
\* The single row of a SELECT count(pk).
CountRow(k) == [cls |-> "Record", shape |-> "count", fields |-> [id |-> 0, name |-> ""],
                cnt |-> k, rel |-> NoRel, r_id |-> NULL]
\* A raw row of the LEFT JOIN: t_* columns and r_* columns.
JoinedRow(i, rid) == [cls |-> "Record", shape |-> "joined",
                      fields |-> [id |-> i, name |-> Name(i)],
                      cnt |-> 0, rel |-> NoRel, r_id |-> rid]

\* Sequences of length <= n of elements of S that differ in key(_).
InjSeqs(S, n, key(_)) ==
    UNION {{s \in [1..k -> S] : \A a, b \in 1..k : a # b => key(s[a]) # key(s[b])}
           : k \in 0..n}

RowId(r) == r.fields.id

\* ------------------------------------------------------------------ replies
\* What a connection answers to one statement: rows (fetch_all), an
\* affected-row count (execute), or a driver error with or without sqlstate.
NoReply == [kind |-> "none", rows |-> <<>>, n |-> 0, sqlstate |-> FALSE]
ErrorReplies == {[kind |-> "error", rows |-> <<>>, n |-> 0, sqlstate |-> b] : b \in BOOLEAN}
RowsReply(s) == [kind |-> "rows", rows |-> s, n |-> 0, sqlstate |-> FALSE]
CountReply(k) == [kind |-> "count", rows |-> <<>>, n |-> k, sqlstate |-> FALSE]

SelectReplies ==
    {RowsReply(s) : s \in InjSeqs({RawRow(i) : i \in 1..MaxRows}, MaxRows, RowId)}
        \cup ErrorReplies
CountReplies == {RowsReply(<<CountRow(k)>>) : k \in 0..MaxRows} \cup ErrorReplies
JoinReplies ==
    {RowsReply(s) : s \in InjSeqs({JoinedRow(i, rid) : i \in 1..MaxRows, rid \in {NULL, 10}},
                                  MaxRows, RowId)}
        \cup ErrorReplies
\* UPDATE/DELETE "... WHERE <empty> RETURNING ..." is not valid SQL: the
\* server can only reject it (core.py:595-601, 630-635).
WriteReplies(where) ==
    IF where = <<>> THEN {r \in ErrorReplies : r.sqlstate}
    ELSE {CountReply(k) : k \in 0..MaxRows} \cup ErrorReplies

\* ------------------------------------------------------------------ outcomes
Self == [kind |-> "self", exc |-> "", val |-> NoneVal]
Return(v) == [kind |-> "return", exc |-> "", val |-> v]
Raise(e) == [kind |-> "raise", exc |-> e, val |-> NoneVal]
NoCall == [kind |-> "none", exc |-> "", val |-> NoneVal]

\* The ON CONFLICT clause of an INSERT (NoClause: the statement has none).
NoClause == [kind |-> "none", target |-> <<>>, updates |-> <<>>]

\* None for fetch_limit / fetch_offset, and for order_by_fields.
NoPaging == NULL
NoOrder == "None"

\* A statement: the connection attribute it is sent through, its verb, WHERE
\* expression and parameters, and its ON CONFLICT, ORDER BY, LIMIT and OFFSET
\* clauses (NoClause, NoOrder, NoPaging: the statement has none).
Statement(conn, verb, where, params) ==
    [conn |-> conn, verb |-> verb, where |-> where, params |-> params, on_conflict |-> NoClause,
     order_by |-> NoOrder, limit |-> NoPaging, offset |-> NoPaging]

\* What an exception carries: DuplicateKeyDatabaseError its table_name and
\* sqlstate, DatabaseError its sqlstate (errors.py:48-63).
NoInfo == [table_name |-> "", sqlstate |-> ""]

\* The descriptors a caller may pass to prefetch_related: two whose
\* secondary type declares a relation to the base type, and one whose does not.
PrefetchNames == {"orders", "notes", "stray"}
NoDatasets == [n \in PrefetchNames |-> <<>>]
NoPrefetchReply == [kind |-> "none", rows |-> <<>>]
NoPrefetchReplies == [n \in PrefetchNames |-> NoPrefetchReply]

NoInsert == [kind |-> "none", n |-> 0, sqlstate |-> ""]
\* The options of create() / bulk_create() at their defaults, and the number
\* of items in bulk_create's values.
NoOptions == [values |-> 0, on_conflict |-> "None", conflict_target |-> <<>>, update_fields |-> <<>>]
NoArgs == [kwargs |-> <<>>, defaults |-> <<>>, insert |-> NoInsert, options |-> NoOptions]

\* ------------------------------------------------------------------ AsyncQuerySet
\* The relations a record type declares in its Meta (tests/test_queryset.py:82-84),
\* and the Meta of a record type that declares none (tests/test_queryset.py:69-71).
Relations == {"profile"}
NoRelations == {"no attribute"}

\* __init__: the freshly constructed builder.
InitialWhere == <<>>

InitQS ==
    /\ action = "None"
    /\ base_query = "None"
    /\ query_executed = FALSE
    /\ conditions = <<>>
    /\ where_conditions = InitialWhere
    /\ query_param_values = {}
    /\ records = NoneVal
    /\ run_select_related = FALSE
    /\ relation = "None"
    /\ update_clause = "None"
    /\ return_type = "MODEL_INSTANCE"
    /\ sent = <<>>
    /\ ret = NoCall
    /\ last_op = "init"
    /\ calls = 0
    /\ last_reply = NoReply
    /\ first_ret = NoCall
    /\ cached_awaits = 0
    /\ exc_info = NoInfo
    /\ call_args = NoArgs
    /\ run_prefetch_related = FALSE
    /\ prefetches = <<>>
    /\ datasets = NoDatasets
    /\ prefetch_reply = NoPrefetchReplies
    /\ ModelMeta_relations \in {Relations, NoRelations}
    /\ fetch_limit = NoPaging
    /\ fetch_offset = NoPaging
    /\ order_by_fields = NoOrder

\* One more call on the builder.
Called(op) ==
    /\ calls < MaxCalls
    /\ calls' = calls + 1
    /\ last_op' = op
    /\ UNCHANGED ModelMeta_relations
    /\ op \in {"limit", "offset", "order_by"} \/ UNCHANGED paging

\* A builder call with keyword kw sends nothing and resolves nothing.
BuilderCallWith(op, kw) ==
    /\ Called(op)
    /\ call_args' = [NoArgs EXCEPT !.kwargs = <<kw>>]
    /\ UNCHANGED <<query_executed, records, sent, last_reply, first_ret, cached_awaits, exc_info>>
    /\ UNCHANGED <<pfconf, pfres>>

BuilderCall(op) == BuilderCallWith(op, NoKw)

\* Keyword filters Q rejects: an unknown operator suffix, and __in with an
\* empty list or with a value that is no list.
InvalidConds == {"name__bogus", "id__in=[]", "id__in=1"}

\* A variant of Q's validation that accepts every operator suffix (used to test C18).
QErrorLax(kw) == IF kw \in {"id__in=[]", "id__in=1"} THEN "InvalidINClauseValueError" ELSE "none"

\* The error Q(**kwargs) raises for keyword kw ("none": it raises none).
QError(kw) ==
    CASE kw = "name__bogus" -> "UnsupportedOperatorError"
      [] kw \in {"id__in=[]", "id__in=1"} -> "InvalidINClauseValueError"
      [] OTHER -> "none"

\* The parameter names Q binds for a list of conditions (one per keyword).
ParamsOf(conds) == {conds[k] : k \in 1..Len(conds)}

\* _reduce_conditions: append Q(**kwargs) when kwargs are given; the
\* reduction with & is the conjunction of every condition held so far.
ReducedConditions(kw) == IF kw # NoKw THEN Append(conditions, kw) ELSE conditions

\* get(**kwargs) / filter(**kwargs): reduce() of an empty list raises TypeError
\* after action and base_query were set.
SetConditions(op, kw) ==
    /\ BuilderCallWith(op, kw)
    /\ action' = op
    /\ base_query' = "select"
    /\ IF QError(kw) # "none"
       THEN /\ ret' = Raise(QError(kw))
            /\ UNCHANGED <<conditions, where_conditions, query_param_values>>
       ELSE /\ conditions' = ReducedConditions(kw)
            /\ IF ReducedConditions(kw) = <<>>
               THEN /\ ret' = Raise("TypeError")
                    /\ UNCHANGED <<where_conditions, query_param_values>>
               ELSE /\ where_conditions' = ReducedConditions(kw)
                    /\ query_param_values' = ParamsOf(ReducedConditions(kw))
                    /\ ret' = Self
    /\ UNCHANGED <<run_select_related, relation, update_clause, return_type>>

get == \E kw \in Conds \cup InvalidConds \cup {NoKw} : SetConditions("get", kw)

filter == \E kw \in Conds \cup InvalidConds \cup {NoKw} : SetConditions("filter", kw)

all ==
    /\ BuilderCall("all")
    /\ action' = "all"
    /\ base_query' = "select"
    /\ where_conditions' = <<>>
    /\ query_param_values' = {}
    /\ ret' = Self
    /\ UNCHANGED <<conditions, run_select_related, relation, update_clause, return_type>>

count ==
    /\ BuilderCall("count")
    /\ action' = "count"
    /\ run_select_related' = FALSE
    /\ base_query' = "count"
    /\ ret' = Self
    /\ UNCHANGED <<conditions, where_conditions, query_param_values, relation, update_clause, return_type>>

\* self.ModelMeta.relations[relation_name] inside try / except KeyError,
\* whose handler reads self.ModelMeta.relations again: the relation's name,
\* or the exception that leaves select_related.
RelationLookup(relations, relation_name) ==
    IF relations = NoRelations THEN "AttributeError"
    ELSE IF relation_name \in relations THEN relation_name
    ELSE "InvalidRelatedFieldError"

\* select_related(relation_name)
select_related ==
    \E relation_name \in Relations \cup {"bogus"} :
        /\ BuilderCallWith("select_related", relation_name)
        /\ run_select_related' = TRUE
        /\ LET found == RelationLookup(ModelMeta_relations, relation_name)
           IN IF found \in {"AttributeError", "InvalidRelatedFieldError"}
              THEN relation' = relation /\ ret' = Raise(found)
              ELSE relation' = found /\ ret' = Self
        /\ UNCHANGED <<action, base_query, conditions, where_conditions, query_param_values, update_clause, return_type>>

\* The descriptors whose secondary type declares a relation to the base type.
ValidPrefetches == {"orders", "notes"}
PrefetchArgs == {<<>>, <<"orders">>, <<"notes", "orders">>, <<"stray">>}

\* prefetch_related(*prefetches): the flag and the descriptors are stored
\* before the descriptors are validated.
prefetch_related ==
    \E ps \in PrefetchArgs :
        /\ Called("prefetch_related")
        /\ run_prefetch_related' = TRUE
        /\ prefetches' = ps
        /\ ret' = IF \A d \in 1..Len(ps) : ps[d] \in ValidPrefetches THEN Self
                  ELSE Raise("InvalidPrefetchError")
        /\ UNCHANGED <<action, base_query, conditions, where_conditions, query_param_values,
                       run_select_related, relation, update_clause, return_type,
                       query_executed, records, sent, last_reply, first_ret, cached_awaits,
                       exc_info, call_args, pfres>>

return_as ==
    \E rt \in {"MODEL_INSTANCE", "DICT"} :
        /\ rt # return_type
        /\ BuilderCall("return_as")
        /\ return_type' = rt
        /\ ret' = Self
        /\ UNCHANGED <<action, base_query, conditions, where_conditions, query_param_values, run_select_related, relation, update_clause>>

\* limit(fetch_limit) / offset(fetch_offset) / order_by(**order_by): the
\* value is stored; nothing else changes.
PagingCall(op) ==
    /\ BuilderCall(op)
    /\ ret' = Self
    /\ UNCHANGED <<action, base_query, conditions, where_conditions, query_param_values,
                   run_select_related, relation, update_clause, return_type>>

limit ==
    \E n \in 0..MaxLimit :
        PagingCall("limit") /\ fetch_limit' = n /\ UNCHANGED <<fetch_offset, order_by_fields>>

offset ==
    \E m \in 0..MaxLimit :
        PagingCall("offset") /\ fetch_offset' = m /\ UNCHANGED <<fetch_limit, order_by_fields>>

order_by ==
    \E fields \in {"{}", "id DESC"} :
        PagingCall("order_by") /\ order_by_fields' = fields /\ UNCHANGED <<fetch_limit, fetch_offset>>

\* The guard of update(): `if self.where_conditions is None`.
UpdateGuard(w) == w = None_where

\* Keywords of update(): a plain field, and a field with an unknown suffix.
UpdateKws == {"name", "name__bogus"}

update ==
    \E kw \in UpdateKws :
        /\ BuilderCallWith("update", kw)
        /\ IF UpdateGuard(where_conditions)
           THEN /\ ret' = Raise("UnrestrictedUpdateError")
                /\ UNCHANGED <<action, run_select_related, update_clause, query_param_values>>
           ELSE /\ action' = "update"
                /\ run_select_related' = FALSE
                /\ IF kw = "name__bogus"
                   THEN /\ ret' = Raise("UnsupportedOperatorError")
                        /\ UNCHANGED <<update_clause, query_param_values>>
                   ELSE /\ update_clause' = kw \o "=:set_" \o kw
                        /\ query_param_values' = query_param_values \cup {"set_" \o kw}
                        /\ ret' = Self
        /\ UNCHANGED <<base_query, conditions, where_conditions, relation, return_type>>

\* The guard of delete(): `if self.where_conditions is None`.
DeleteGuard(w) == w = None_where

delete ==
    /\ BuilderCall("delete")
    /\ IF DeleteGuard(where_conditions)
       THEN /\ ret' = Raise("UnrestrictedDeleteError")
            /\ UNCHANGED <<action, run_select_related>>
       ELSE /\ action' = "delete"
            /\ run_select_related' = FALSE
            /\ ret' = Self
    /\ UNCHANGED <<base_query, conditions, where_conditions, query_param_values, relation, update_clause, return_type>>

\* ------------------------------------------------------------------ resolution
\* Python truthiness of a column value: None and 0 are falsy.
Truthy(v) == v # NULL /\ v # 0

\* _denormalize_related_data: one item per raw joined row, the related
\* columns attached when the related primary key is truthy.
DenormalizeRelatedData(rows) ==
    [k \in 1..Len(rows) |->
        [cls |-> "dict", shape |-> "base", fields |-> rows[k].fields, cnt |-> 0,
         rel |-> IF Truthy(rows[k].r_id)
                 THEN [present |-> TRUE, id |-> rows[k].r_id, bio |-> "x"]
                 ELSE NoRel,
         r_id |-> NULL]]

\* _serialize_data: typed records (Model(**record)) or plain mappings;
\* a count result is left as the driver returned it.
SerializeData(act, rt, rows) ==
    IF act = "count" THEN rows
    ELSE [k \in 1..Len(rows) |->
            [rows[k] EXCEPT !.cls = IF rt = "MODEL_INSTANCE" THEN "Model" ELSE "dict"]]

\* _get
\* A variant of _get that settles for the first record (used to test C9).
GetFirstResult(recs) ==
    IF Len(recs) >= 1 THEN Return(ObjVal(recs[1])) ELSE Raise("DoesNotExist")

GetResult(recs) ==
    IF Len(recs) = 1 THEN Return(ObjVal(recs[1]))
    ELSE IF Len(recs) = 0 THEN Raise("DoesNotExist")
    ELSE Raise("MultipleRecordsFound")

\* _count: records[0]['count'] of a single record, else None.
CountResult(recs) ==
    IF Len(recs) = 1
    THEN IF recs[1].shape = "count" THEN Return(IntVal(recs[1].cnt)) ELSE Raise("KeyError")
    ELSE Return(NoneVal)

\* func(), chosen in __await__ from self.action.
Func(act, recs) ==
    CASE act = "get" -> GetResult(recs)
      [] act = "count" -> CountResult(recs)
      [] OTHER -> Return(ListVal(recs))

\* The error a failed statement surfaces as: wrapped when it has a sqlstate.
Classify(reply) == IF reply.sqlstate THEN Raise("DatabaseError") ELSE Raise("DriverError")

ReadActions == {"get", "filter", "all", "count"}

\* `if not self.query_executed` in __await__ for a read action.
ReadSkipsQuery == query_executed

\* `if not self.query_executed` in _update / _delete.
\* A variant of _update / _delete without the query_executed test (used to test C7).
WriteAlwaysQueries == FALSE

WriteSkipsQuery == query_executed

\* What the connection may answer to the statement this resolution sends
\* (NoReply when it sends none).
AwaitReplies ==
    CASE action \in {"update", "delete"} ->
            IF WriteSkipsQuery THEN {NoReply} ELSE WriteReplies(where_conditions)
      [] action \in ReadActions ->
            IF ReadSkipsQuery THEN {NoReply}
            ELSE IF run_select_related
                 THEN (IF relation = "None" THEN {NoReply} ELSE JoinReplies)
                 ELSE (IF base_query = "count" THEN CountReplies ELSE SelectReplies)
      [] OTHER -> {NoReply}

\* _update / _delete: one statement on the write connection unless the
\* instance already executed, then self.records.
ResolveWrite(verb, reply) ==
    IF WriteSkipsQuery
    THEN /\ ret' = Return(records)
         /\ UNCHANGED <<sent, records, query_executed, first_ret>>
    ELSE /\ sent' = Append(sent, Statement("write", verb, where_conditions,
                                           query_param_values))
         /\ IF reply.kind = "error"
            THEN /\ ret' = Classify(reply)
                 /\ UNCHANGED <<records, query_executed, first_ret>>
            ELSE /\ records' = IntVal(reply.n)
                 /\ query_executed' = TRUE
                 /\ ret' = Return(IntVal(reply.n))
                 /\ first_ret' = Return(IntVal(reply.n))

\* `if self.order_by_fields:` / `if self.fetch_limit:` / `if self.fetch_offset:`
\* append ORDER BY, LIMIT and OFFSET to the statement.
Paged(stmt) ==
    [stmt EXCEPT !.order_by = IF order_by_fields \notin {NoOrder, "{}"} THEN order_by_fields ELSE NoOrder,
                 !.limit = IF Truthy(fetch_limit) THEN fetch_limit ELSE NoPaging,
                 !.offset = IF Truthy(fetch_offset) THEN fetch_offset ELSE NoPaging]

\* _execute_query
ExecuteQuery(reply) ==
    /\ sent' = Append(sent, Paged(Statement("read", IF base_query = "count" THEN "COUNT" ELSE "SELECT",
                                            where_conditions, query_param_values)))
    /\ IF reply.kind = "error"
       THEN /\ ret' = Classify(reply)
            /\ UNCHANGED <<records, query_executed, first_ret>>
       ELSE LET recs == SerializeData(action, return_type, reply.rows)
            IN /\ records' = ListVal(recs)
               /\ query_executed' = TRUE
               /\ ret' = Func(action, recs)
               /\ first_ret' = Func(action, recs)

\* _execute_query_with_select_related
ExecuteQueryWithSelectRelated(reply) ==
    IF relation = "None"
    THEN /\ ret' = Raise("AttributeError")
         /\ UNCHANGED <<sent, records, query_executed, first_ret>>
    ELSE /\ sent' = Append(sent, Paged(Statement("read", "JOIN", where_conditions,
                                                 query_param_values)))
         /\ IF reply.kind = "error"
            THEN /\ ret' = Classify(reply)
                 /\ UNCHANGED <<records, query_executed, first_ret>>
            ELSE LET recs == SerializeData(action, return_type,
                                           DenormalizeRelatedData(reply.rows))
                 IN /\ records' = ListVal(recs)
                    /\ query_executed' = TRUE
                    /\ ret' = Func(action, recs)
                    /\ first_ret' = Func(action, recs)

\* ------------------------------------------------------------------ prefetch
\* The rows of the secondary tables: id and the foreign field that names a
\* base row (9 names none).
SecondaryRow(i, fk) == [id |-> i, fk |-> fk]
SecondaryTable(n) ==
    IF n = "orders"
    THEN <<SecondaryRow(1, 1), SecondaryRow(2, 2), SecondaryRow(3, 1), SecondaryRow(4, 9),
           SecondaryRow(5, 3)>>
    ELSE <<SecondaryRow(6, 2), SecondaryRow(7, 2)>>

\* What the read connection answers to `<foreign_field> IN (id_field_vals)`.
IsIn(keys, v) == \E k \in 1..Len(keys) : keys[k] = v
RECURSIVE Matching(_, _)
Matching(rows, keys) ==
    IF rows = <<>> THEN <<>>
    ELSE (IF IsIn(keys, rows[1].fk) THEN <<rows[1]>> ELSE <<>>) \o Matching(Tail(rows), keys)

\* A variant of the inner loop without the equality test (used to test C13).
PrefetchObjSetUnmatched(base_obj, prefetch_objs) == prefetch_objs

\* The inner loop: the prefetch objects whose foreign field equals the key of base_obj.
RECURSIVE PrefetchObjSet(_, _)
PrefetchObjSet(base_obj, prefetch_objs) ==
    IF prefetch_objs = <<>> THEN <<>>
    ELSE (IF base_obj.fields.id = prefetch_objs[1].fk THEN <<prefetch_objs[1]>> ELSE <<>>)
            \o PrefetchObjSet(base_obj, Tail(prefetch_objs))

\* The base objects the loops run over: a list as it is, anything else in a
\* list of one.
BaseObjs(res) == IF res.val.tag \in {"list", "obj"} THEN res.val.rows ELSE <<res.val>>

\* getattr(i, prefetch.id_field) / i[prefetch.id_field] on what is no record,
\* or with the id_field an unresolved descriptor leaves at None.
KeyError(res, n, rt) ==
    IF res.val.tag \notin {"list", "obj"}
    THEN (IF rt = "MODEL_INSTANCE" THEN "AttributeError" ELSE "TypeError")
    ELSE IF n \notin ValidPrefetches
    THEN (IF rt = "MODEL_INSTANCE" THEN "TypeError" ELSE "KeyError")
    ELSE "none"

RECURSIVE PrefetchLoop(_, _, _, _, _)
\* `for prefetch in self.prefetches` from descriptor d on; st holds the
\* statements sent, the sets attached and the replies so far, and the
\* exception that ended the loop.
PrefetchLoop(res, rt, d, fail_at, st) ==
    IF d > Len(prefetches) \/ st.exc # "none" THEN st
    ELSE LET n == prefetches[d]
             base_objs == BaseObjs(res)
         IN IF KeyError(res, n, rt) # "none"
            THEN [st EXCEPT !.exc = KeyError(res, n, rt)]
            ELSE LET keys == [i \in 1..Len(base_objs) |-> base_objs[i].fields.id]
                     asked == Append(st.sent, Statement("read", "SELECT", <<n \o ".fk__in">>,
                                                        {"fk__in"}))
                     rows == Matching(SecondaryTable(n), keys)
                 IN IF fail_at = d
                    THEN [st EXCEPT !.sent = asked, !.exc = "DatabaseError",
                                    !.replies[n] = [kind |-> "error", rows |-> <<>>]]
                    ELSE PrefetchLoop(res, rt, d + 1, fail_at,
                            [st EXCEPT !.sent = asked,
                                       !.replies[n] = [kind |-> "rows", rows |-> rows],
                                       !.sets[n] = [i \in 1..Len(base_objs) |->
                                                        PrefetchObjSet(base_objs[i], rows)]])

\* _execute_query_with_prefetch_related
ExecuteQueryWithPrefetchRelated(reply, fail_at) ==
    LET asked == Append(sent, Paged(Statement("read", IF base_query = "count" THEN "COUNT" ELSE "SELECT",
                                              where_conditions, query_param_values)))
    IN IF reply.kind = "error"
       THEN /\ sent' = asked
            /\ ret' = Classify(reply)
            /\ UNCHANGED <<records, query_executed, first_ret, pfres>>
       ELSE LET recs == SerializeData(action, return_type, reply.rows)
                res == Func(action, recs)
                st == IF res.kind = "raise" \/ Len(BaseObjs(res)) = 0
                      THEN [sent |-> asked, sets |-> datasets, replies |-> prefetch_reply,
                            exc |-> "none"]
                      ELSE PrefetchLoop(res, return_type, 1, fail_at,
                                        [sent |-> asked, sets |-> datasets,
                                         replies |-> prefetch_reply, exc |-> "none"])
            IN /\ records' = ListVal(recs)
               /\ query_executed' = TRUE
               /\ sent' = st.sent
               /\ datasets' = st.sets
               /\ prefetch_reply' = st.replies
               /\ ret' = IF st.exc # "none" THEN Raise(st.exc) ELSE res
               /\ first_ret' = ret'

\* A variant of the last branch of __await__ that falls through (used to test C36).
NoActionFallsThrough == Return(NoneVal)

\* The last branch of __await__: no action was set.
NoActionSet == Raise("MalformedQuerysetError")

\* The prefetch statement that may fail (0: none does).
PrefetchFailures ==
    IF action \in ReadActions /\ ~query_executed /\ ~run_select_related /\ run_prefetch_related
    THEN 0..Len(prefetches) ELSE {0}

\* __await__: one resolution of the builder.
await ==
    \E reply \in AwaitReplies, fail_at \in PrefetchFailures :
        /\ Called("await")
        /\ last_reply' = reply
        /\ cached_awaits' = IF query_executed THEN cached_awaits + 1 ELSE cached_awaits
        /\ CASE action = "update" -> ResolveWrite("UPDATE", reply)
             [] action = "delete" -> ResolveWrite("DELETE", reply)
             [] action \in ReadActions ->
                    IF ReadSkipsQuery
                    THEN \* __await__ returns None: awaiting it is a TypeError
                         /\ ret' = Raise("TypeError")
                         /\ UNCHANGED <<sent, records, query_executed, first_ret>>
                    ELSE IF run_select_related
                         THEN ExecuteQueryWithSelectRelated(reply)
                         ELSE IF run_prefetch_related
                         THEN ExecuteQueryWithPrefetchRelated(reply, fail_at)
                         ELSE ExecuteQuery(reply)
             [] OTHER ->
                    /\ ret' = NoActionSet
                    /\ UNCHANGED <<sent, records, query_executed, first_ret>>
        /\ (action \in ReadActions /\ ~ReadSkipsQuery /\ ~run_select_related
                /\ run_prefetch_related) \/ UNCHANGED pfres
        /\ UNCHANGED <<action, base_query, conditions, where_conditions, query_param_values,
                       run_select_related, relation, update_clause, return_type, exc_info, call_args,
                       pfconf>>

\* ------------------------------------------------------------------ denormalization alone
\* Related primary keys a joined row may carry: NULL when the LEFT JOIN
\* matched nothing.
RelatedIds == {NULL, 0, 10, 11}

\* Raw joined rows, rows sharing a base key included.
RawJoinedRows ==
    UNION {[1..k -> {JoinedRow(i, rid) : i \in 1..MaxRows, rid \in RelatedIds}] : k \in 0..MaxRows}

InitFn ==
    /\ raw_rows \in RawJoinedRows
    /\ items = <<>>
    /\ denormalized = FALSE

Denormalize ==
    /\ ~denormalized
    /\ items' = DenormalizeRelatedData(raw_rows)
    /\ denormalized' = TRUE
    /\ UNCHANGED raw_rows

\* ------------------------------------------------------------------ Q
\* {**kwargs, **defaults}: a key of both takes the value of defaults.
Merge(kwargs, defaults) ==
    [f \in DOMAIN kwargs \cup DOMAIN defaults |->
        IF f \in DOMAIN defaults THEN defaults[f] ELSE kwargs[f]]

\* A token of a where_clause: a parenthesis, AND, OR, or a comparison
\* `field op :placeholder` together with the value bound for it.
NoName == <<>>
Tok(kind) == [kind |-> kind, field |-> "", op |-> "", ph |-> NoName, val |-> 0]
Cmp(field, op, ph, val) == [kind |-> "cmp", field |-> field, op |-> op, ph |-> ph, val |-> val]

\* field_name = f"{field}_{field_idx}_{self.secret}"
FieldName(field, field_idx, secret) == <<field, field_idx, secret>>

\* Keyword filters: (key, value) pairs in dict order, keys distinct.
QKeys == {"id", "id__gte"}
QValues == {1, 2}
QKwargs ==
    {kw \in UNION {[1..k -> QKeys \X QValues] : k \in 1..2} :
        \A i, j \in 1..Len(kw) : i # j => kw[i][1] # kw[j][1]}

FieldOf(key) == IF key = "id__gte" THEN "t.id" ELSE "t." \o key
OpOf(key) == IF key = "id__gte" THEN ">=" ELSE "="

RECURSIVE JoinAnd(_)
\* " AND ".join(conditions)
JoinAnd(conds) ==
    IF Len(conds) = 0 THEN <<>>
    ELSE IF Len(conds) = 1 THEN <<conds[1]>>
    ELSE <<conds[1], Tok("AND")>> \o JoinAnd(Tail(conds))

\* Q(**kwargs) with the secret random.randint returned.
QInit(kwargs, secret) ==
    [where_clause |-> JoinAnd([i \in 1..Len(kwargs) |->
                        Cmp(FieldOf(kwargs[i][1]), OpOf(kwargs[i][1]),
                            FieldName(FieldOf(kwargs[i][1]), i, secret), kwargs[i][2])]),
     params |-> [n \in {FieldName(FieldOf(kwargs[i][1]), i, secret) : i \in 1..Len(kwargs)} |->
                    LET i == CHOOSE i \in 1..Len(kwargs) :
                                 n = FieldName(FieldOf(kwargs[i][1]), i, secret)
                    IN kwargs[i][2]]]

NoQ == [where_clause |-> <<>>, params |-> <<>>]

\* A variant of __or__ / __and__ without the parentheses (used to test C20).
CombinedBare(a, b, op) ==
    [where_clause |-> a.where_clause \o <<Tok(op)>> \o b.where_clause,
     params |-> Merge(a.params, b.params)]

\* __or__ / __and__: f"({a} OP {b})" and {**a.params, **b.params}.
Combined(a, b, op) ==
    [where_clause |-> <<Tok("(")>> \o a.where_clause \o <<Tok(op)>> \o b.where_clause
                        \o <<Tok(")")>>,
     params |-> Merge(a.params, b.params)]

InitQ ==
    /\ q_a \in {QInit(kw, secret) : kw \in QKwargs, secret \in 0..MaxSecret}
    /\ q_b \in {QInit(kw, secret) : kw \in QKwargs, secret \in 0..MaxSecret}
    /\ q_c = NoQ
    /\ q_ops = 0

\* a & b / a | b on the two conditions, or on the latest combination and one of them.
Combine(op) ==
    \E left, right \in {q_a, q_b, q_c} \ {NoQ} :
        /\ q_ops < MaxCombine
        /\ (q_c = NoQ /\ left = q_a /\ right = q_b) \/ (q_c # NoQ /\ q_c \in {left, right})
        /\ q_c' = Combined(left, right, op)
        /\ q_ops' = q_ops + 1
        /\ UNCHANGED <<q_a, q_b>>

and == Combine("AND")
or == Combine("OR")

\* ------------------------------------------------------------------ create
\* The table of the record type (Meta.db_table).
Table == "users"

\* SQL states a failed INSERT may expose; "none" is an error without a
\* sqlstate attribute.
DuplicateKey == "23505"
SqlStates == {DuplicateKey, "23503", "none"}

\* What the write connection answers to an INSERT: the new id, or an error.
InsertReplies ==
    {[kind |-> "id", n |-> k, sqlstate |-> ""] : k \in 1..MaxRows}
        \cup {[kind |-> "error", n |-> 0, sqlstate |-> st] : st \in SqlStates}

\* A variant of the except clause that wraps every SQL state alike (used to test C12).
InsertErrorGeneric(reply) ==
    IF reply.sqlstate = "none" THEN Raise("DriverError") ELSE Raise("DatabaseError")

\* The except clause of create() / bulk_create(): the exception the caller receives.
InsertError(reply) ==
    IF reply.sqlstate = "none" THEN Raise("DriverError")
    ELSE IF reply.sqlstate = DuplicateKey THEN Raise("DuplicateKeyDatabaseError")
    ELSE Raise("DatabaseError")

\* ... and what it carries.
InsertErrorInfo(reply) ==
    IF reply.sqlstate = "none" THEN NoInfo
    ELSE IF reply.sqlstate = DuplicateKey
         THEN [table_name |-> Table, sqlstate |-> reply.sqlstate]
    ELSE [table_name |-> "", sqlstate |-> reply.sqlstate]

\* The model object create() returns: the keyword data with the primary key
\* set to the returned id.
Created(data, new_id) ==
    [cls |-> "Model", shape |-> "base",
     fields |-> [id |-> new_id, name |-> IF "name" \in DOMAIN data THEN data.name ELSE ""],
     cnt |-> 0, rel |-> NoRel, r_id |-> NULL]

\* What create(**data) hands to its caller.
CreateResult(data, reply) ==
    IF reply.kind = "error" THEN InsertError(reply)
    ELSE Return(ObjVal(Created(data, reply.n)))

\* on_conflict, conflict_target and update_fields as a caller may pass them.
ConflictOptions ==
    {[values |-> 0, on_conflict |-> oc, conflict_target |-> ct, update_fields |-> uf] :
        oc \in {"None", "DO_NOTHING", "UPDATE"}, ct \in {<<>>, <<"id">>}, uf \in {<<>>, <<"name">>}}
        \ {o \in [values : {0}, on_conflict : {"None", "DO_NOTHING"},
                   conflict_target : {<<>>, <<"id">>}, update_fields : {<<>>, <<"name">>}] :
               o.conflict_target # <<>> \/ o.update_fields # <<>>}

\* The clause bulk_create() appends for its options ("ValueError": it raises).
BulkConflictClause(o) ==
    IF o.on_conflict = "DO_NOTHING" THEN [NoClause EXCEPT !.kind = "DO NOTHING"]
    ELSE IF o.on_conflict = "UPDATE"
         THEN IF o.conflict_target = <<>> \/ o.update_fields = <<>>
              THEN [NoClause EXCEPT !.kind = "ValueError"]
              ELSE [kind |-> "DO UPDATE SET", target |-> o.conflict_target,
                    updates |-> o.update_fields]
    ELSE NoClause

\* The clause create() appends: its ON CONFLICT logic is commented out.
CreateConflictClause(o) == NoClause

\* An INSERT statement with its clause.
InsertStatement(cols, clause) ==
    [Statement("write", "INSERT", <<>>, cols) EXCEPT !.on_conflict = clause]

\* The INSERT of create(**data), sent after the statements sent_so_far.
Insert(data, reply, sent_so_far) ==
    /\ sent' = Append(sent_so_far, InsertStatement(DOMAIN data, CreateConflictClause(call_args'.options)))
    /\ exc_info' = IF reply.kind = "error" THEN InsertErrorInfo(reply) ELSE NoInfo

\* Keyword data a caller passes to create().
CreateData == {[name |-> Name(i)] : i \in 1..MaxRows}

\* create(on_conflict, conflict_target, update_fields, **kwargs)
create ==
    \E data \in CreateData, reply \in InsertReplies, o \in ConflictOptions :
        /\ Called("create")
        /\ calls < MaxInserts
        /\ run_select_related' = FALSE
        /\ last_reply' = NoReply
        /\ call_args' = [kwargs |-> data, defaults |-> <<>>, insert |-> reply, options |-> o]
        /\ Insert(data, reply, sent)
        /\ ret' = CreateResult(data, reply)
        /\ UNCHANGED <<action, base_query, query_executed, conditions, where_conditions,
                       query_param_values, records, relation, update_clause, return_type,
                       first_ret, cached_awaits, pfconf, pfres>>

\* A variant of the test of bulk_create's values that lets an empty list
\* through (used to test C23).
NothingToCreateNever(n) == FALSE

\* `if len(values) == 0: raise NothingToCreateError()`
NothingToCreate(n) == n = 0

\* bulk_create(values, on_conflict, conflict_target, update_fields) with n
\* items in values; returns None.
bulk_create ==
    \E n \in 0..MaxRows, reply \in InsertReplies, o \in ConflictOptions :
        /\ Called("bulk_create")
        /\ calls < MaxInserts
        /\ last_reply' = NoReply
        /\ IF NothingToCreate(n)
           THEN /\ ret' = Raise("NothingToCreateError")
                /\ call_args' = [NoArgs EXCEPT !.options = o]
                /\ UNCHANGED <<sent, run_select_related, exc_info>>
           ELSE /\ run_select_related' = FALSE
                /\ IF BulkConflictClause(o).kind = "ValueError"
                   THEN /\ ret' = Raise("ValueError")
                        /\ call_args' = [NoArgs EXCEPT !.options = [o EXCEPT !.values = n]]
                        /\ UNCHANGED <<sent, exc_info>>
                   ELSE /\ call_args' = [NoArgs EXCEPT !.insert = reply,
                                                       !.options = [o EXCEPT !.values = n]]
                        /\ sent' = Append(sent, InsertStatement({"name"}, BulkConflictClause(o)))
                        /\ IF reply.kind = "error"
                           THEN ret' = InsertError(reply) /\ exc_info' = InsertErrorInfo(reply)
                           ELSE ret' = Return(NoneVal) /\ exc_info' = NoInfo
        /\ UNCHANGED <<action, base_query, query_executed, conditions, where_conditions,
                       query_param_values, records, relation, update_clause, return_type,
                       first_ret, cached_awaits, pfconf, pfres>>

\* (obj, created) as get_or_create returns it.
PairVal(o, created) == [tag |-> "pair", rows |-> <<o>>, n |-> IF created THEN 1 ELSE 0]

\* Lookups and defaults a caller passes to get_or_create.
Lookups == {[name |-> "A"], [id |-> 1]}
Defaults == {<<>>, [name |-> "B"]}

\* The keyword of a one-field lookup.
KwOf(lookup) == CHOOSE f \in DOMAIN lookup : TRUE

\* A variant that also creates when several rows were found (used to test C17).
GetOrCreateAlways(res, data, ins, sent_so_far) ==
    /\ Insert(data, ins, sent_so_far)
    /\ ret' = CreateResult(data, ins)

\* After the read of get_or_create: except DoesNotExist -> create(**data).
GetOrCreateAfterRead(res, data, ins, sent_so_far) ==
    IF res = Raise("DoesNotExist")
    THEN /\ Insert(data, ins, sent_so_far)
         /\ ret' = LET made == CreateResult(data, ins)
                   IN IF made.kind = "return" THEN Return(PairVal(made.val.rows[1], TRUE))
                      ELSE made
    ELSE /\ sent' = sent_so_far
         /\ exc_info' = NoInfo
         /\ ret' = IF res.kind = "return" THEN Return(PairVal(res.val.rows[1], FALSE)) ELSE res

\* get_or_create(defaults, **kwargs), on the builder Model.async_queryset
\* hands out (a new one for every access, core.py:765-768).
get_or_create ==
    \E lookup \in Lookups, defaults \in Defaults, read \in SelectReplies, ins \in InsertReplies :
        /\ action = "None"
        /\ Called("get_or_create")
        /\ run_select_related' = FALSE
        /\ action' = "get"
        /\ base_query' = "select"
        /\ conditions' = Append(conditions, KwOf(lookup))
        /\ where_conditions' = conditions'
        /\ query_param_values' = ParamsOf(conditions')
        /\ last_reply' = read
        /\ call_args' = [options |-> NoOptions, kwargs |-> lookup, defaults |-> defaults,
                         insert |-> IF read.kind = "rows" /\ read.rows = <<>> THEN ins ELSE NoInsert]
        /\ LET sent1 == Append(sent, Statement("read", "SELECT", where_conditions',
                                               query_param_values'))
           IN IF read.kind = "error"
              THEN /\ ret' = Classify(read)
                   /\ sent' = sent1
                   /\ exc_info' = NoInfo
                   /\ UNCHANGED <<records, query_executed, first_ret>>
              ELSE LET recs == SerializeData("get", return_type, read.rows)
                   IN /\ records' = ListVal(recs)
                      /\ query_executed' = TRUE
                      /\ first_ret' = GetResult(recs)
                      /\ GetOrCreateAfterRead(GetResult(recs), Merge(lookup, defaults), ins, sent1)
        /\ UNCHANGED <<relation, update_clause, return_type, cached_awaits, pfconf, pfres>>

\* ------------------------------------------------------------------ AsyncPostgresDB
NoCur == [op |-> "none", txn |-> 0]

InitDB ==
    /\ tx = <<>>
    /\ db_pc = "idle"
    /\ cur = NoCur
    /\ finished = <<>>
    /\ caller_tx = 0

\* database.transaction(): a new transaction on the connection; inside an
\* active one it is nested (outer: the caller's transaction it is nested in).
NewTx(by) ==
    [by |-> by, state |-> "active", ended_by |-> "none", commits |-> 0, rollbacks |-> 0,
     outer |-> caller_tx]

CallsBegun == Cardinality({k \in 1..Len(tx) : tx[k].by # "caller"})
CallerTxns == Cardinality({k \in 1..Len(tx) : tx[k].by = "caller"})

\* The caller opens a transaction of its own (shop_api.py:110).
CallerBegin ==
    /\ db_pc = "idle"
    /\ caller_tx = 0
    /\ CallerTxns < MaxCallerTxns
    /\ tx' = Append(tx, NewTx("caller"))
    /\ caller_tx' = Len(tx) + 1
    /\ UNCHANGED <<db_pc, cur, finished>>

\* transaction.commit() / transaction.rollback() on transaction k, by `who`.
Ended(k, how, who) ==
    [tx EXCEPT ![k].state = how,
               ![k].ended_by = who,
               ![k].commits = @ + (IF how = "committed" THEN 1 ELSE 0),
               ![k].rollbacks = @ + (IF how = "rolled_back" THEN 1 ELSE 0)]

\* The caller ends its transaction (shop_api.py:116-120).
CallerEnd ==
    \E how \in {"committed", "rolled_back"} :
        /\ db_pc = "idle"
        /\ caller_tx # 0
        /\ tx' = Ended(caller_tx, how, "caller")
        /\ caller_tx' = 0
        /\ UNCHANGED <<db_pc, cur, finished>>

\* A variant that works in the caller's transaction when there is one (used to test C5).
CallerTxOrOwn(op) == IF caller_tx # 0 THEN caller_tx ELSE Len(tx) + 1

\* A variant in which a call works in the transaction the previous call
\* opened, if there is one (used to test C21).
CallTxAmbient(op) == IF Len(tx) > 0 THEN Len(tx) ELSE 1

\* The transaction a call works in: `transaction = await self.database.transaction()`.
BeginTx(op) == Append(tx, NewTx(op))
CallTx(op) == Len(tx) + 1

\* execute / execute_many up to the awaited driver call.
ExecuteBegin ==
    \E op \in {"execute", "execute_many"} :
        /\ db_pc = "idle"
        /\ CallsBegun < MaxExec
        /\ cur' = [op |-> op, txn |-> CallTx(op)]
        /\ tx' = BeginTx(op)
        /\ db_pc' = "statement"
        /\ UNCHANGED <<finished, caller_tx>>

Finish(outcome) ==
    /\ finished' = Append(finished, [op |-> cur.op, txn |-> cur.txn, outcome |-> outcome,
                                     end_state |-> tx[cur.txn].state])
    /\ cur' = NoCur
    /\ db_pc' = "idle"

\* What `except Exception` catches: CancelledError is a BaseException.
Caught(outcome) == outcome = "error"

\* The awaited database.execute(...) ends: with a result, with an ordinary
\* exception, or with the coroutine's cancellation.
StatementEnds ==
    \E outcome \in {"ok", "error", "cancelled"} :
        /\ db_pc = "statement"
        /\ IF outcome = "ok"
           THEN db_pc' = "commit" /\ UNCHANGED <<cur, finished>>
           ELSE IF Caught(outcome)
                THEN db_pc' = "rollback" /\ UNCHANGED <<cur, finished>>
                ELSE Finish("cancelled")
        /\ UNCHANGED <<tx, caller_tx>>

\* except: await transaction.rollback()
Rollback ==
    /\ db_pc = "rollback"
    /\ tx' = Ended(cur.txn, "rolled_back", cur.op)
    /\ db_pc' = "reraise"
    /\ UNCHANGED <<cur, finished, caller_tx>>

\* raise e
Reraise ==
    /\ db_pc = "reraise"
    /\ Finish("raised")
    /\ UNCHANGED <<tx, caller_tx>>

\* else: await transaction.commit()
Commit ==
    /\ db_pc = "commit"
    /\ tx' = Ended(cur.txn, "committed", cur.op)
    /\ db_pc' = "return"
    /\ UNCHANGED <<cur, finished, caller_tx>>

\* return result
ReturnResult ==
    /\ db_pc = "return"
    /\ Finish("returned")
    /\ UNCHANGED <<tx, caller_tx>>

\* ------------------------------------------------------------------ connect()
InitConn ==
    /\ conn_type \in {"READ", "WRITE"}
    /\ max_retries \in 0..MaxRetries
    /\ retry_delay \in 1..MaxDelay
    /\ database = "None"
    /\ retries = 0
    /\ conn_pc = "new"
    /\ attempts = 0
    /\ failures = 0
    /\ slept = 0

\* `while retries < self.max_retries`
\* A variant of the loop test that allows one attempt more (used to test C6).
RetryLoopInclusive(r) == r <= max_retries

RetryLoop(r) == r < max_retries

\* After the loop test: one more attempt, or the final raise.
LoopOrRaise(r) == IF RetryLoop(r) THEN "attempt" ELSE "failed"

\* connect() is called: retries = 0 and the first loop test.
connect ==
    /\ conn_pc = "new"
    /\ retries' = 0
    /\ conn_pc' = LoopOrRaise(0)
    /\ UNCHANGED <<conn_type, max_retries, retry_delay, database, attempts, failures, slept>>

\* self.database = Database(...); await self.database.connect() succeeds: return.
AttemptSucceeds ==
    /\ conn_pc = "attempt"
    /\ database' = "Database"
    /\ attempts' = attempts + 1
    /\ conn_pc' = "connected"
    /\ UNCHANGED <<conn_type, max_retries, retry_delay, retries, failures, slept>>

\* ... or raises: retries += 1, then await asyncio.sleep(self.retry_delay).
AttemptFails ==
    /\ conn_pc = "attempt"
    /\ database' = "Database"
    /\ attempts' = attempts + 1
    /\ failures' = failures + 1
    /\ retries' = retries + 1
    /\ conn_pc' = "sleep"
    /\ UNCHANGED <<conn_type, max_retries, retry_delay, slept>>

\* The sleep ends: back to the loop test.
SleepEnds ==
    /\ conn_pc = "sleep"
    /\ slept' = slept + retry_delay
    /\ conn_pc' = LoopOrRaise(retries)
    /\ UNCHANGED <<conn_type, max_retries, retry_delay, database, retries, attempts, failures>>

\* ------------------------------------------------------------------ DBConnectionManager
ConnTypes == {"READ", "WRITE"}

Configs == UNION {[1..k -> ConnTypes] : k \in 0..MaxConfig}

InitMgr ==
    /\ databases_config \in Configs
    /\ connections = {}
    /\ read_conn_names = <<>>
    /\ write_conn_name = 0
    /\ mgr_state = "new"
    /\ transaction = 0
    /\ mgr_ret = [op |-> "none", kind |-> "none", exc |-> "", conn |-> 0]
    /\ connection_objs = <<>>

\* __set_write_connection
\* A variant of __set_write_connection where the last WRITE entry wins (used to test C10).
LastWriteConnectionWins(st, k) == [st EXCEPT !.write = k]

SetWriteConnection(st, k) ==
    IF st.write = 0 THEN [st EXCEPT !.write = k]
    ELSE [st EXCEPT !.exc = "MultipleWriteConnectionsError"]

\* One pass of the loop of __create_connections over entry k.
CreateConnection(cfg, st, k) ==
    LET made == [st EXCEPT !.conns = @ \cup {k}]
    IN IF cfg[k] = "READ" THEN [made EXCEPT !.reads = Append(@, k)]
       ELSE SetWriteConnection(made, k)

\* The check after the loop.
RequireRead(st) ==
    IF Len(st.reads) = 0 THEN [st EXCEPT !.exc = "ReadConnectionNotAvailableError"] ELSE st

RECURSIVE CreateConnections(_, _, _)
\* __create_connections from entry k on; an exception ends it at once.
CreateConnections(cfg, st, k) ==
    IF st.exc # "none" THEN st
    ELSE IF k > Len(cfg) THEN RequireRead(st)
    ELSE CreateConnections(cfg, CreateConnection(cfg, st, k), k + 1)

\* AsyncPostgresDB(...): self.database = None.
NewConnection == [pc |-> "new", database |-> "None", is_connected |-> FALSE]

\* A connection on which connect() returned / exhausted its retries (the
\* manager's connections have max_retries = 3: self.database is the last
\* Database it tried).
Connected == [pc |-> "connected", database |-> "Database", is_connected |-> TRUE]
Exhausted == [pc |-> "failed", database |-> "Database", is_connected |-> FALSE]

\* DBConnectionManager(databases_config)
Construct ==
    /\ mgr_state = "new"
    /\ LET st == CreateConnections(databases_config,
                                   [conns |-> {}, reads |-> <<>>, write |-> 0, exc |-> "none"], 1)
       IN /\ connections' = st.conns
          /\ read_conn_names' = st.reads
          /\ write_conn_name' = st.write
          /\ mgr_state' = IF st.exc = "none" THEN "built" ELSE st.exc
          /\ connection_objs' = [k \in st.conns |-> NewConnection]
    /\ UNCHANGED <<databases_config, transaction, mgr_ret>>

\* Outcomes of a call on the manager.
MgrReturn(op, k) == [op |-> op, kind |-> "return", exc |-> "", conn |-> k]
MgrRaise(op, e) == [op |-> op, kind |-> "raise", exc |-> e, conn |-> 0]

\* self.connections[name] inside try / except KeyError.
Lookup(op, name) ==
    IF name \in connections THEN MgrReturn(op, name)
    ELSE MgrRaise(op, "InvalidConnectionNameError")

MgrCall == UNCHANGED <<databases_config, connections, read_conn_names, write_conn_name, mgr_state>>

\* get_db_conn(conn_name); 0 stands for a name that was never configured.
get_db_conn ==
    \E name \in 0..Len(databases_config) :
        /\ mgr_state = "built"
        /\ mgr_ret' = Lookup("get_db_conn", name)
        /\ UNCHANGED <<transaction, connection_objs>>
        /\ MgrCall

\* db_for_read(): random.choice over read_conn_names.
db_for_read ==
    \E i \in 1..Len(read_conn_names) :
        /\ mgr_state = "built"
        /\ mgr_ret' = Lookup("db_for_read", read_conn_names[i])
        /\ UNCHANGED <<transaction, connection_objs>>
        /\ MgrCall

\* db_for_write(): write_conn_name is None (0) when no WRITE entry was configured.
db_for_write ==
    /\ mgr_state = "built"
    /\ mgr_ret' = Lookup("db_for_write", write_conn_name)
    /\ UNCHANGED <<transaction, connection_objs>>
    /\ MgrCall

\* connect_all(): the connections connect in dict order until one connect()
\* raises (fail_at; 0: none does), then
\* self.transaction = self.connections[self.write_conn_name].transaction.
connect_all ==
    \E fail_at \in connections \cup {0} :
        /\ mgr_state = "built"
        /\ connection_objs' = [k \in connections |->
                                  IF fail_at = 0 \/ k < fail_at THEN Connected
                                  ELSE IF k = fail_at THEN Exhausted
                                  ELSE connection_objs[k]]
        /\ IF fail_at # 0
           THEN mgr_ret' = MgrRaise("connect_all", "Exception") /\ UNCHANGED transaction
           ELSE IF write_conn_name \in connections
           THEN mgr_ret' = MgrReturn("connect_all", 0) /\ transaction' = write_conn_name
           ELSE mgr_ret' = MgrRaise("connect_all", "KeyError") /\ UNCHANGED transaction
        /\ MgrCall

\* Database.disconnect(): returns at once on a Database that is not
\* connected; None has no disconnect.
Disconnect(c) ==
    IF c.database = "None" THEN [conn |-> c, exc |-> "AttributeError"]
    ELSE [conn |-> [c EXCEPT !.is_connected = FALSE], exc |-> "none"]

\* A variant of close() without the test of self.database (used to test C22).
CloseUnguarded(c) == Disconnect(c)

\* AsyncPostgresDB.close(): `if self.database: await self.database.disconnect()`.
Close(c) == IF c.database # "None" THEN Disconnect(c) ELSE [conn |-> c, exc |-> "none"]

\* close() on one of the manager's connections.
close ==
    \E k \in connections :
        /\ mgr_state = "built"
        /\ connection_objs' = [connection_objs EXCEPT ![k] = Close(@).conn]
        /\ mgr_ret' = IF Close(connection_objs[k]).exc = "none" THEN MgrReturn("close", k)
                      ELSE MgrRaise("close", Close(connection_objs[k]).exc)
        /\ UNCHANGED transaction
        /\ MgrCall

RECURSIVE CloseAll(_, _)
\* The loop of close_all() over the connections from name k on: the first
\* close() that raises ends it.
CloseAll(objs, k) ==
    IF \A j \in DOMAIN objs : j < k THEN [objs |-> objs, exc |-> "none"]
    ELSE IF k \notin DOMAIN objs THEN CloseAll(objs, k + 1)
    ELSE IF Close(objs[k]).exc # "none" THEN [objs |-> objs, exc |-> Close(objs[k]).exc]
    ELSE CloseAll([objs EXCEPT ![k] = Close(@).conn], k + 1)

\* close_all()
close_all ==
    /\ mgr_state = "built"
    /\ connection_objs' = CloseAll(connection_objs, 1).objs
    /\ mgr_ret' = IF CloseAll(connection_objs, 1).exc = "none" THEN MgrReturn("close_all", 0)
                  ELSE MgrRaise("close_all", CloseAll(connection_objs, 1).exc)
    /\ UNCHANGED transaction
    /\ MgrCall

\* ------------------------------------------------------------------ Relation
\* Related record types a Relation may be declared for: pydantic models
\* whose Meta is missing (NoMeta) or declares some of db_table and primary_key.
NoMeta == {"no Meta"}
ModelNames == {"Profile", "UserProfile", "Order"}
RelatedModels == [name : ModelNames, meta : {NoMeta} \cup SUBSET {"db_table", "primary_key"}]
ForeignFields == {"profile_id", "user_id"}
RelatedNames == {"None", "profile", "owner"}

\* re.sub(r'([a-z])([A-Z])', r'\1_\2', name).lower()
SnakeCase(name) ==
    CASE name = "Profile" -> "profile"
      [] name = "UserProfile" -> "user_profile"
      [] name = "Order" -> "order"

\* Meta.db_table of a record type.
DbTable(name) == SnakeCase(name) \o "s"

NoRelation == [kind |-> "none", exc |-> "", table |-> "", related_id_field |-> "",
               foreign_field |-> "", related_name |-> ""]

\* self.table after the first try block: reading Meta of a pydantic model
\* without Meta raises AttributeError('Meta'), the only one the handler
\* turns into MalformedMetaError; any other AttributeError is dropped and
\* self.table stays unset.
RelationTable(m) ==
    IF m.meta = NoMeta THEN "MalformedMetaError"
    ELSE IF "db_table" \in m.meta THEN DbTable(m.name)
    ELSE "unset"

\* Relation.__init__
RelationInit(args) ==
    LET m == args.related_model
    IN IF RelationTable(m) = "MalformedMetaError"
       THEN [NoRelation EXCEPT !.kind = "raise", !.exc = "MalformedMetaError"]
       ELSE IF "primary_key" \notin m.meta
       THEN [NoRelation EXCEPT !.kind = "raise", !.exc = "AttributeError"]
       ELSE [kind |-> "object", exc |-> "", table |-> RelationTable(m),
             related_id_field |-> "id", foreign_field |-> args.foreign_field,
             related_name |-> IF args.related_name # "None" THEN args.related_name
                              ELSE SnakeCase(m.name)]

InitRel ==
    /\ rel_args \in [related_model : RelatedModels, foreign_field : ForeignFields,
                      related_name : RelatedNames]
    /\ rel_obj = NoRelation

\* Relation(related_model, foreign_field, related_name)
Relation ==
    /\ rel_obj = NoRelation
    /\ rel_obj' = RelationInit(rel_args)
    /\ UNCHANGED rel_args

\* ------------------------------------------------------------------ registry
\* Names a caller may use; "None" is the absent argument of get_fastpg().
RegistryNames == {"", "default", "primary"}

NoRegCall == [op |-> "none", name |-> "None", kind |-> "none", exc |-> "", inst |-> 0]
NoCreated == [name |-> "None", inst |-> 0, live |-> FALSE]

RegReturn(op, name, inst) == [op |-> op, name |-> name, kind |-> "return", exc |-> "", inst |-> inst]
RegRaise(op, name, e) == [op |-> op, name |-> name, kind |-> "raise", exc |-> e, inst |-> 0]

InitReg ==
    /\ FASTPG_REGISTRY = [n \in RegistryNames |-> 0]
    /\ CURRENT_FASTPG_NAME = "default"
    /\ instances = 0
    /\ reg_ret = NoRegCall
    /\ last_created = NoCreated

\* register_fastpg(name, instance), with an instance constructed before or
\* for the purpose.
register_fastpg ==
    \E name \in RegistryNames, inst \in 1..MaxInstances :
        /\ inst <= instances + 1
        /\ instances' = IF inst > instances THEN inst ELSE instances
        /\ FASTPG_REGISTRY' = [FASTPG_REGISTRY EXCEPT ![name] = inst]
        /\ reg_ret' = RegReturn("register_fastpg", name, 0)
        /\ UNCHANGED <<CURRENT_FASTPG_NAME, last_created>>

\* create_fastpg(name, ...): FastPG(...) may raise (a malformed configuration).
create_fastpg ==
    \E name \in RegistryNames, constructed \in BOOLEAN :
        /\ instances < MaxInstances
        /\ IF constructed
           THEN /\ instances' = instances + 1
                /\ FASTPG_REGISTRY' = [FASTPG_REGISTRY EXCEPT ![name] = instances + 1]
                /\ CURRENT_FASTPG_NAME' = name
                /\ reg_ret' = RegReturn("create_fastpg", name, instances + 1)
                /\ last_created' = [name |-> name, inst |-> instances + 1, live |-> TRUE]
           ELSE /\ reg_ret' = RegRaise("create_fastpg", name, "ConfigurationError")
                /\ UNCHANGED <<FASTPG_REGISTRY, CURRENT_FASTPG_NAME, instances, last_created>>

\* A variant that resolves an absent name to the default name (used to test C27).
ResolvedNameDefault(name) == IF name \in {"None", ""} THEN "default" ELSE name

\* `resolved_name = name or _CURRENT_FASTPG_NAME.get()`: None and the empty
\* string are both falsy.
ResolvedName(name) == IF name \in {"None", ""} THEN CURRENT_FASTPG_NAME ELSE name

\* get_fastpg(name)
get_fastpg ==
    \E name \in RegistryNames \cup {"None"} :
        /\ reg_ret' = IF FASTPG_REGISTRY[ResolvedName(name)] # 0
                      THEN RegReturn("get_fastpg", name, FASTPG_REGISTRY[ResolvedName(name)])
                      ELSE RegRaise("get_fastpg", name, "FastPGInstanceNotConfiguredError")
        /\ UNCHANGED <<FASTPG_REGISTRY, CURRENT_FASTPG_NAME, instances, last_created>>

\* set_current_fastpg(name)
set_current_fastpg ==
    \E name \in RegistryNames :
        /\ IF FASTPG_REGISTRY[name] = 0
           THEN /\ reg_ret' = RegRaise("set_current_fastpg", name, "FastPGInstanceNotConfiguredError")
                /\ UNCHANGED <<CURRENT_FASTPG_NAME, last_created>>
           ELSE /\ CURRENT_FASTPG_NAME' = name
                /\ reg_ret' = RegReturn("set_current_fastpg", name, 0)
                /\ last_created' = [last_created EXCEPT !.live = @ /\ name = CURRENT_FASTPG_NAME]
        /\ UNCHANGED <<FASTPG_REGISTRY, instances>>

\* ------------------------------------------------------------------ claims: registry
Unregistered(name) == name # "None" /\ FASTPG_REGISTRY[name] = 0

NotConfigured(r) == r.kind = "raise" /\ r.exc = "FastPGInstanceNotConfiguredError"

\* What C27 says of set_current_fastpg and register_fastpg.
CurrentNameKept ==
    /\ (reg_ret'.op = "set_current_fastpg" /\ Unregistered(reg_ret'.name)) =>
            /\ NotConfigured(reg_ret')
            /\ FASTPG_REGISTRY' = FASTPG_REGISTRY
            /\ CURRENT_FASTPG_NAME' = CURRENT_FASTPG_NAME
    /\ reg_ret'.op = "register_fastpg" => CURRENT_FASTPG_NAME' = CURRENT_FASTPG_NAME

\* C27: get_fastpg(name) and set_current_fastpg(name) raise
\* FastPGInstanceNotConfiguredError for every name that is not registered, a
\* failed set_current_fastpg changes nothing, register_fastpg never changes
\* the current name, and after a successful create_fastpg(name) get_fastpg()
\* without name returns that instance until another create_fastpg or
\* set_current_fastpg changes the current name.
C27_Registry ==
    [][/\ CurrentNameKept
       /\ (reg_ret'.op = "get_fastpg" /\ Unregistered(reg_ret'.name)) => NotConfigured(reg_ret')
       /\ (reg_ret'.op = "get_fastpg" /\ reg_ret'.name = "None" /\ last_created.live) =>
            (reg_ret'.kind = "return" /\ reg_ret'.inst = last_created.inst)]_regvars

\* C27, amended: get_fastpg('') resolves the current name as get_fastpg()
\* does, and get_fastpg() returns the last_created instance only as long as
\* register_fastpg has not put another instance under that name.
C27_RegistryAmended ==
    [][/\ CurrentNameKept
       /\ (reg_ret'.op = "get_fastpg" /\ Unregistered(reg_ret'.name) /\ reg_ret'.name # "") =>
            NotConfigured(reg_ret')
       /\ (/\ reg_ret'.op = "get_fastpg" /\ reg_ret'.name \in {"None", ""}
           /\ last_created.live /\ FASTPG_REGISTRY[last_created.name] = last_created.inst) =>
            (reg_ret'.kind = "return" /\ reg_ret'.inst = last_created.inst)]_regvars

\* C27 witness: get_fastpg() returned the instance create_fastpg("primary")
\* made, with other names registered and the instance under "default" replaced.
C27_Witness ==
    /\ reg_ret.op = "get_fastpg" /\ reg_ret.name = "None" /\ reg_ret.kind = "return"
    /\ last_created.live /\ last_created.name = "primary" /\ reg_ret.inst = last_created.inst
    /\ FASTPG_REGISTRY["default"] \notin {0, last_created.inst}

\* ------------------------------------------------------------------ claims: Relation
\* C26: constructing a Relation for a record type without Meta, or whose
\* Meta lacks the table name or the primary key, raises MalformedMetaError;
\* no Relation object without a table name or primary key is produced.
C26_MalformedMetaRejected ==
    rel_obj # NoRelation =>
        /\ rel_args.related_model.meta # {"db_table", "primary_key"} =>
                (rel_obj.kind = "raise" /\ rel_obj.exc = "MalformedMetaError")
        /\ rel_obj.kind = "object" =>
                (rel_obj.table # "unset" /\ rel_obj.related_id_field # "unset")

\* ------------------------------------------------------------------ claims: builder
WriteVerbs == {"UPDATE", "DELETE"}

\* C1: every UPDATE or DELETE statement dispatched to a connection carries a
\* non-empty WHERE condition.
C1_WritesAreRestricted ==
    \A k \in 1..Len(sent) : sent[k].verb \in WriteVerbs => sent[k].where # <<>>

\* C2: update() / delete() on a builder to which no condition was supplied
\* raises the unrestricted-operation error at the call and sends nothing.
C2_UnrestrictedRaises ==
    [][/\ (last_op' = "update" /\ calls' = calls + 1 /\ conditions = <<>>) =>
            (ret' = Raise("UnrestrictedUpdateError") /\ sent' = sent)
       /\ (last_op' = "delete" /\ calls' = calls + 1 /\ conditions = <<>>) =>
            (ret' = Raise("UnrestrictedDeleteError") /\ sent' = sent)]_qsvars

\* C7: once query_executed is set, no later step of the instance (resolution
\* or builder call) sends a further statement, whatever the action.
C7_ExecutedSendsNothing == [][query_executed => sent' = sent]_qsvars

\* C7 witness: a second resolution of an executed update, and of an executed
\* read, has taken place.
C7_Witness ==
    /\ query_executed
    /\ cached_awaits > 0
    /\ last_op = "await"
    /\ action \in {"update", "delete", "get", "filter", "all", "count"}
    /\ Len(sent) = 1

\* C8: a resolution of an instance whose query_executed is set returns the
\* cached result of the first resolution.
C8_SecondAwaitReturnsCached ==
    [][(query_executed /\ last_op' = "await" /\ calls' = calls + 1
            /\ first_ret.kind = "return" /\ action \in ReadActions \cup {"update", "delete"})
        => ret' = first_ret]_qsvars

\* C9: a non-joined get whose statement returned n rows raises DoesNotExist
\* for n = 0, MultipleRecordsFound for n >= 2, and for n = 1 returns one
\* record with the fields of the returned row.
C9_GetByRowCount ==
    (last_op = "await" /\ action = "get" /\ ~run_select_related /\ last_reply.kind = "rows")
    => LET n == Len(last_reply.rows)
       IN /\ n = 0 => ret = Raise("DoesNotExist")
          /\ n >= 2 => ret = Raise("MultipleRecordsFound")
          /\ n = 1 => /\ ret.kind = "return"
                      /\ ret.val.tag = "obj"
                      /\ ret.val.rows[1].fields = last_reply.rows[1].fields
                      /\ ret.val.rows[1].cls = (IF return_type = "MODEL_INSTANCE"
                                                THEN "Model" ELSE "dict")

\* C9 witness: a get resolved over exactly one row and returned it.
C9_Witness ==
    /\ last_op = "await" /\ action = "get" /\ ~run_select_related
    /\ last_reply.kind = "rows" /\ Len(last_reply.rows) = 1
    /\ ret.kind = "return"

\* ------------------------------------------------------------------ claims: connection
OwnTx(c) == tx[c.txn]

\* C3: every call of execute / execute_many ends the transaction it opened
\* exactly once: committed and never rolled back when it returns, rolled back
\* and never committed - before the error reaches the caller - otherwise.
C3_TransactionEndedExactlyOnce ==
    \A k \in 1..Len(finished) :
        LET c == finished[k]
        IN /\ OwnTx(c).commits + OwnTx(c).rollbacks = 1
           /\ c.outcome = "returned" =>
                (OwnTx(c).commits = 1 /\ OwnTx(c).rollbacks = 0 /\ c.end_state = "committed")
           /\ c.outcome # "returned" =>
                (OwnTx(c).rollbacks = 1 /\ OwnTx(c).commits = 0 /\ c.end_state = "rolled_back")

\* C4: a call cancelled while its statement is in flight has rolled its
\* transaction back when the cancellation reaches the caller; no call ends
\* with its transaction neither committed nor rolled back.
C4_CancelledCallRolledBack ==
    \A k \in 1..Len(finished) :
        /\ finished[k].outcome = "cancelled" => finished[k].end_state = "rolled_back"
        /\ finished[k].end_state # "active"

C21_EachCallOwnUnitOfWork ==
    CallerTxns = 0 =>
        /\ \A k \in 1..Len(tx) : tx[k].outer = 0
        /\ \A k \in 1..Len(finished) :
            LET c == finished[k]
            IN /\ c.outcome = "returned" =>
                    (OwnTx(c).state = "committed" /\ OwnTx(c).rollbacks = 0)
               /\ c.outcome = "raised" =>
                    (OwnTx(c).state = "rolled_back" /\ OwnTx(c).commits = 0)
               /\ \A l \in 1..Len(finished) : l # k => finished[l].txn # c.txn
               /\ cur.txn # c.txn

\* C21 witness: the first call returned, the second raised; the first
\* call's transaction is committed, the second's rolled back.
C21_Witness ==
    /\ CallerTxns = 0
    /\ Len(finished) = 2
    /\ finished[1].outcome = "returned" /\ finished[2].outcome = "raised"
    /\ OwnTx(finished[1]).state = "committed"
    /\ OwnTx(finished[2]).state = "rolled_back"

\* ------------------------------------------------------------------ claims: connect()
ConnectEnded == conn_pc \in {"connected", "failed"}

\* The safety half of C6.
ConnectBounded ==
    /\ attempts <= max_retries
    /\ failures <= attempts
    /\ attempts - failures <= 1
    /\ attempts - failures = 1 <=> conn_pc = "connected"
    /\ slept = retry_delay * (IF conn_pc = "sleep" THEN failures - 1 ELSE failures)
    /\ conn_pc = "failed" <=> (failures = max_retries /\ attempts = failures /\ conn_pc \notin {"new", "sleep"})
    /\ conn_pc = "connected" => failures < max_retries
    /\ (max_retries = 0 /\ conn_pc # "new") => (conn_pc = "failed" /\ attempts = 0)

\* C6: connect() always terminates, after at most max_retries attempts; it
\* returns at the first successful attempt and attempts no more, sleeps
\* retry_delay after each failed attempt, and raises exactly when max_retries
\* attempts in a row have failed (at once when max_retries = 0).
C6_ConnectTerminates == []ConnectBounded /\ <>ConnectEnded

\* C6 witnesses: connected after a failed attempt; failed after max_retries > 1 attempts.
C6_Witness ==
    \/ conn_pc = "connected" /\ failures = 2 /\ max_retries = 3
    \/ conn_pc = "failed" /\ failures = 3 /\ max_retries = 3

\* ------------------------------------------------------------------ claims: manager
NumOf(type) == Cardinality({k \in 1..Len(databases_config) : databases_config[k] = type})

C11_BuiltManagerHasWriteConnection ==
    mgr_state = "built" =>
        /\ write_conn_name \in connections
        /\ mgr_ret.op = "db_for_write" => mgr_ret.kind = "return"
        /\ mgr_ret.op = "connect_all" => mgr_ret.exc # "KeyError"

InsertFailed == last_op \in {"create", "bulk_create"} /\ call_args.insert.kind = "error"

\* C12: when the INSERT of create() / bulk_create() fails, SQL state 23505
\* reaches the caller as DuplicateKeyDatabaseError carrying the table name,
\* any other SQL state as DatabaseError carrying that state, and an error
\* without SQL state as the original error, unwrapped.
C12_InsertErrorsClassified ==
    InsertFailed =>
        LET st == call_args.insert.sqlstate
        IN /\ st = DuplicateKey =>
                (ret = Raise("DuplicateKeyDatabaseError") /\ exc_info.table_name = Table)
           /\ st \notin {DuplicateKey, "none"} =>
                (ret = Raise("DatabaseError") /\ exc_info.sqlstate = st)
           /\ st = "none" => (ret = Raise("DriverError") /\ exc_info = NoInfo)

\* C23: bulk_create(values=[]) raises NothingToCreateError and sends
\* nothing to any connection, whatever its conflict options.
C23_EmptyBulkCreate ==
    [][(calls' = calls + 1 /\ last_op' = "bulk_create" /\ call_args'.options.values = 0)
       => (ret' = Raise("NothingToCreateError") /\ sent' = sent)]_qsvars

\* C23 witness: an empty bulk_create with on_conflict=UPDATE and no conflict
\* target was rejected as empty, after a create() had sent its INSERT.
C23_Witness ==
    /\ last_op = "bulk_create" /\ call_args.options.values = 0
    /\ call_args.options.on_conflict = "UPDATE" /\ call_args.options.conflict_target = <<>>
    /\ ret = Raise("NothingToCreateError")
    /\ Len(sent) = 1

\* C25: the INSERT of create(), like that of bulk_create(), carries the
\* clause its conflict option asks for: ON CONFLICT DO NOTHING for
\* DO_NOTHING, ON CONFLICT (target) DO UPDATE SET fields for UPDATE with a
\* conflict target and update fields, and no ON CONFLICT clause without option.
C25_ConflictOptionHonoured ==
    (last_op \in {"create", "bulk_create"} /\ call_args.insert # NoInsert) =>
        LET o == call_args.options
            clause == sent[Len(sent)].on_conflict
        IN /\ o.on_conflict = "None" => clause = NoClause
           /\ o.on_conflict = "DO_NOTHING" => clause.kind = "DO NOTHING"
           /\ (o.on_conflict = "UPDATE" /\ o.conflict_target # <<>> /\ o.update_fields # <<>>) =>
                (/\ clause.kind = "DO UPDATE SET"
                 /\ clause.target = o.conflict_target
                 /\ clause.updates = o.update_fields)

\* C24: select_related(name) with a name that is not among the declared
\* relations of the record type raises InvalidRelatedFieldError, also for a
\* record type that declares no relations; with a declared name the builder
\* is in joined mode with that relation.
C24_SelectRelatedResolves ==
    last_op = "select_related" =>
        LET name == call_args.kwargs[1]
            declared == ModelMeta_relations # NoRelations /\ name \in ModelMeta_relations
        IN /\ ~declared => ret = Raise("InvalidRelatedFieldError")
           /\ declared => (ret = Self /\ run_select_related /\ relation = name)

\* C12 witness: a bulk_create hit a duplicate key after a create failed otherwise.
C12_Witness ==
    /\ InsertFailed
    /\ last_op = "bulk_create"
    /\ call_args.insert.sqlstate = DuplicateKey
    /\ ret.exc = "DuplicateKeyDatabaseError"
    /\ Len(sent) = 2

Added == SubSeq(sent', Len(sent) + 1, Len(sent'))

\* C17: get_or_create sends one read; it sends an INSERT exactly when the read
\* returned no row, and then returns (new object, True) built from the lookup
\* merged with the defaults; one row gives (that object, False) and no write;
\* two or more rows give MultipleRecordsFound and no write.
C17_GetOrCreate ==
    [][(last_op' = "get_or_create" /\ calls' = calls + 1) =>
        LET rows == last_reply'.rows
            data == Merge(call_args'.kwargs, call_args'.defaults)
        IN /\ Len(Added) \in {1, 2}
           /\ Added[1].conn = "read"
           /\ Len(Added) = 2 <=> (last_reply'.kind = "rows" /\ Len(rows) = 0)
           /\ Len(Added) = 2 =>
                /\ Added[2].verb = "INSERT"
                /\ Added[2].params = DOMAIN call_args'.kwargs \cup DOMAIN call_args'.defaults
                /\ call_args'.insert.kind = "id" =>
                        ret' = Return(PairVal(Created(data, call_args'.insert.n), TRUE))
           /\ (last_reply'.kind = "rows" /\ Len(rows) = 1) =>
                /\ ret'.kind = "return"
                /\ ret'.val.tag = "pair" /\ ret'.val.n = 0
                /\ ret'.val.rows[1].fields = rows[1].fields
           /\ (last_reply'.kind = "rows" /\ Len(rows) >= 2) =>
                ret' = Raise("MultipleRecordsFound")]_qsvars

\* C17 witness: the read found nothing and the object was created, its name
\* taken from the defaults although the lookup named another.
C17_Witness ==
    /\ last_op = "get_or_create"
    /\ last_reply.kind = "rows" /\ last_reply.rows = <<>>
    /\ call_args.kwargs = [name |-> "A"] /\ call_args.defaults = [name |-> "B"]
    /\ ret.kind = "return" /\ ret.val.n = 1 /\ ret.val.rows[1].fields.name = "B"
    /\ Len(sent) = 2

\* C18: get / filter with an unknown operator suffix or a bad __in value and
\* update with an unknown suffix raise at the call itself, and nothing is
\* sent to a connection by it.
C18_ConstructionErrorsAtCall ==
    [][(calls' = calls + 1 /\ last_op' \in {"get", "filter", "update"})
       => LET kw == call_args'.kwargs[1]
          IN /\ (last_op' # "update" /\ kw = "name__bogus") =>
                    (ret' = Raise("UnsupportedOperatorError") /\ sent' = sent)
             /\ (last_op' # "update" /\ kw \in {"id__in=[]", "id__in=1"}) =>
                    (ret' = Raise("InvalidINClauseValueError") /\ sent' = sent)
             /\ (last_op' = "update" /\ kw = "name__bogus") =>
                    (ret' = Raise("UnsupportedOperatorError") /\ sent' = sent)]_qsvars

\* C18 witness: an update with an unknown suffix was rejected on a builder
\* that has already sent a statement.
C18_Witness ==
    /\ last_op = "update" /\ call_args.kwargs = <<"name__bogus">>
    /\ ret = Raise("UnsupportedOperatorError")
    /\ Len(sent) = 1

\* ------------------------------------------------------------------ claims: prefetch
RECURSIVE SumLen(_)
SumLen(seqs) == IF seqs = <<>> THEN 0 ELSE Len(seqs[1]) + SumLen(Tail(seqs))

Elems(seq) == {seq[k] : k \in 1..Len(seq)}

\* C13: after a prefetch, the set attached to each base row holds exactly the
\* secondary rows returned whose foreign field equals that row's key, and
\* the sizes of the sets add up to the number of secondary rows returned.
C13_PrefetchPartition ==
    \A n \in PrefetchNames :
        prefetch_reply[n].kind = "rows" =>
            LET base == records.rows
                rows == prefetch_reply[n].rows
                sets == datasets[n]
            IN /\ Len(sets) = Len(base)
               /\ \A i \in 1..Len(base) :
                    /\ Elems(sets[i]) = {r \in Elems(rows) : r.fk = base[i].fields.id}
                    /\ Cardinality(Elems(sets[i])) = Len(sets[i])
               /\ SumLen(sets) = Len(rows)

\* C13 witness: two base rows and three secondary rows, two of them for the
\* first base row.
C13_Witness ==
    /\ last_op = "await" /\ ret.kind = "return"
    /\ prefetch_reply["orders"].kind = "rows"
    /\ Len(records.rows) = 2 /\ records.rows[1].fields.id = 1
    /\ Len(prefetch_reply["orders"].rows) = 3
    /\ Len(datasets["orders"][1]) = 2 /\ Len(datasets["orders"][2]) = 1

FirstResolution == last_op' = "await" /\ calls' = calls + 1 /\ ~query_executed

\* C14: unless a statement fails, resolving a read with k prefetch
\* descriptors sends the base statement and then one statement per
\* descriptor; none when the base statement returned no row or the get
\* raised DoesNotExist or MultipleRecordsFound.
C14_OneStatementPerPrefetch ==
    [][(/\ FirstResolution
        /\ action \in ReadActions
        /\ run_prefetch_related
        /\ \A d \in 1..Len(prefetches) : prefetches[d] \in ValidPrefetches
        /\ last_reply'.kind = "rows"
        /\ \A n \in PrefetchNames : prefetch_reply'[n].kind # "error")
       => /\ Len(Added) >= 1
          /\ Added[1].where = where_conditions
          /\ IF \/ last_reply'.rows = <<>>
                \/ ret' \in {Raise("DoesNotExist"), Raise("MultipleRecordsFound")}
             THEN Len(Added) = 1
             ELSE /\ Len(Added) = 1 + Len(prefetches)
                  /\ \A d \in 1..Len(prefetches) :
                        Added[1 + d].where = <<prefetches[d] \o ".fk__in">>]_qsvars

\* C28: a builder on which both select_related and prefetch_related were
\* requested resolves through the joined statement and then the prefetch
\* step: one statement per descriptor follows the join and every requested
\* set is attached to the base records of the result.
C28_JoinedThenPrefetch ==
    [][(/\ FirstResolution
        /\ action \in {"get", "filter", "all"}
        /\ run_select_related /\ relation # "None"
        /\ run_prefetch_related /\ prefetches # <<>>
        /\ \A d \in 1..Len(prefetches) : prefetches[d] \in ValidPrefetches
        /\ last_reply'.kind = "rows" /\ last_reply'.rows # <<>>
        /\ ret'.kind = "return")
       => /\ Added[1].verb = "JOIN"
          /\ Len(Added) = 1 + Len(prefetches)
          /\ \A d \in 1..Len(prefetches) :
                /\ prefetch_reply'[prefetches[d]].kind = "rows"
                /\ Len(datasets'[prefetches[d]]) = Len(records'.rows)]_qsvars

\* C16: resolving a builder right after count() sends the single
\* SELECT count(pk), takes neither the join nor a prefetch, and returns the
\* integer, whatever select_related / prefetch_related calls came before.
C16_CountIsPlain ==
    [][(FirstResolution /\ last_op = "count" /\ last_reply'.kind = "rows")
       => /\ Len(Added) = 1
          /\ Added[1].verb = "COUNT"
          /\ ret' = Return(IntVal(last_reply'.rows[1].cnt))]_qsvars

\* C15: denormalization returns one record per base key: as many records as
\* there are distinct base keys in the raw rows, no key twice.
C15_OneRecordPerBaseKey ==
    denormalized =>
        /\ Len(items) = Cardinality({RowId(r) : r \in Elems(raw_rows)})
        /\ \A a, b \in 1..Len(items) : a # b => RowId(items[a]) # RowId(items[b])

\* C31: in a joined result every raw row's output record has the related
\* record attached if and only if the LEFT JOIN matched a related row (the
\* related primary key is not NULL), whatever the value of that key, 0 included.
C31_RelatedIffMatched ==
    denormalized =>
        /\ Len(items) = Len(raw_rows)
        /\ \A k \in 1..Len(raw_rows) :
                (items[k].rel # NoRel) <=> (raw_rows[k].r_id # NULL)

\* C34: all() discards every condition supplied earlier on the builder: after
\* all() there is no WHERE condition and the parameter map is empty, and a
\* filter() called right after all() restricts the statement only by its own
\* condition.
C34_AllDiscardsConditions ==
    [][/\ (calls' = calls + 1 /\ last_op' = "all") =>
                (where_conditions' = <<>> /\ query_param_values' = {})
       /\ (last_op = "all" /\ calls' = calls + 1 /\ last_op' = "filter"
                /\ call_args'.kwargs[1] \in Conds) =>
                (/\ where_conditions' = <<call_args'.kwargs[1]>>
                 /\ query_param_values' = ParamsOf(<<call_args'.kwargs[1]>>))]_qsvars

\* This step is a resolution during which a statement it sent failed: the
\* statement of the action, or one of the prefetch statements.
StatementFailed ==
    /\ calls' = calls + 1 /\ last_op' = "await"
    /\ Len(sent') > Len(sent)
    /\ \/ last_reply'.kind = "error"
       \/ \E n \in PrefetchNames : prefetch_reply'[n].kind = "error" /\ prefetch_reply[n].kind # "error"

\* C35: when a statement of a resolution fails the builder stays unexecuted:
\* query_executed remains false and no rows are cached, the error reaches the
\* caller (DatabaseError when it has a SQL state, unchanged otherwise), and
\* the next resolution sends the statement again.
C35_FailureLeavesUnexecuted ==
    [][/\ StatementFailed =>
            /\ ~query_executed'
            /\ records' = records
            /\ ret'.kind = "raise" /\ ret'.exc \in {"DatabaseError", "DriverError"}
            /\ last_reply'.kind = "error" => ret' = Classify(last_reply')
       /\ (/\ last_op = "await" /\ ret.kind = "raise" /\ ret.exc \in {"DatabaseError", "DriverError"}
           /\ calls' = calls + 1 /\ last_op' = "await") => Len(sent') > Len(sent)]_qsvars

C37_PagingInStatement ==
    [][(calls' = calls + 1 /\ last_op' = "await" /\ Len(sent') > Len(sent)) =>
            LET stmt == sent'[Len(sent) + 1]
            IN /\ fetch_limit # NoPaging => stmt.limit = fetch_limit
               /\ fetch_offset # NoPaging => stmt.offset = fetch_offset]_qsvars

\* ------------------------------------------------------------------ claims: Q
Bound(q) ==
    \A k \in 1..Len(q.where_clause) :
        LET tok == q.where_clause[k]
        IN tok.kind = "cmp" =>
            (tok.ph \in DOMAIN q.params /\ q.params[tok.ph] = tok.val)

\* C19: in every condition built from keyword filters and combined with &
\* and |, each placeholder of the expression has its entry in the parameter
\* map and stands for the value bound to it: no two distinct values share a
\* placeholder name.
C19_PlaceholdersBound == Bound(q_a) /\ Bound(q_b) /\ Bound(q_c)

Operands == {q_a, q_b, q_c} \ {NoQ}

\* C20: a & b / a | b is a new condition whose expression is "(" a OP b ")"
\* and whose parameter keys are the union of those of a and b; a and b are
\* left as they were.
C20_CombinationShape ==
    [][q_ops' = q_ops + 1 =>
        /\ q_a' = q_a /\ q_b' = q_b
        /\ \E a, b \in Operands, op \in {"AND", "OR"} :
            /\ q_c'.where_clause =
                    <<Tok("(")>> \o a.where_clause \o <<Tok(op)>> \o b.where_clause \o <<Tok(")")>>
            /\ DOMAIN q_c'.params = DOMAIN a.params \cup DOMAIN b.params]_qvars

\* C20 witness: a combination of a combination, of conditions with different secrets.
C20_Witness ==
    /\ q_ops = 2
    /\ q_c.where_clause[1].kind = "(" /\ q_c.where_clause[2].kind = "("
    /\ \E k \in 1..Len(q_c.where_clause) : q_c.where_clause[k].kind = "OR"
    /\ \E k \in 1..Len(q_c.where_clause) : q_c.where_clause[k].kind = "AND"
    /\ DOMAIN q_a.params \cap DOMAIN q_b.params = {}

\* ------------------------------------------------------------------ accumulated conditions
InitFilter ==
    /\ self_conditions = <<>>
    /\ self_where = InitialWhere
    /\ self_params = <<>>
    /\ filter_calls = <<>>
    /\ filter_ret = <<"none", "none">>

RECURSIVE Reduce(_)
\* reduce(lambda x, y: x & y, conds) for a list that is not empty.
Reduce(conds) ==
    IF Len(conds) = 1 THEN conds[1]
    ELSE Combined(Reduce(SubSeq(conds, 1, Len(conds) - 1)), conds[Len(conds)], "AND")

\* _reduce_conditions: if kwargs: self.conditions.append(Q(**kwargs)).
Appended(conds, kwargs, secret) ==
    IF Len(kwargs) > 0 THEN Append(conds, QInit(kwargs, secret)) ELSE conds

\* filter(**kwargs) / get(**kwargs): the conditions are reduced with & and the
\* result gives where_conditions and query_param_values; reduce() of an
\* empty list raises TypeError.
ReduceConditions(op) ==
    \E kwargs \in QKwargs \cup {<<>>}, secret \in 0..MaxSecret :
        /\ Len(filter_calls) < MaxFilters
        /\ self_conditions' = Appended(self_conditions, kwargs, secret)
        /\ IF self_conditions' = <<>>
           THEN /\ filter_ret' = <<op, "TypeError">>
                /\ UNCHANGED <<self_where, self_params, filter_calls>>
           ELSE /\ self_where' = Reduce(self_conditions').where_clause
                /\ self_params' = Reduce(self_conditions').params
                /\ filter_calls' = Append(filter_calls,
                                          IF Len(kwargs) > 0 THEN QInit(kwargs, secret) ELSE NoQ)
                /\ filter_ret' = <<op, "self">>

FilterConditions == ReduceConditions("filter")
GetConditions == ReduceConditions("get")

\* The comparisons of an expression, in order.
Comparisons(clause) == SelectSeq(clause, LAMBDA t : t.kind = "cmp")

RECURSIVE ComparisonsOfCalls(_)
ComparisonsOfCalls(qs) ==
    IF qs = <<>> THEN <<>>
    ELSE Comparisons(Head(qs).where_clause) \o ComparisonsOfCalls(Tail(qs))

\* C30: after k successive filter()/get() calls on one builder the WHERE
\* expression is the conjunction of the conditions of all k calls (their
\* comparisons in call order, joined by AND only) and the parameter map is the
\* union of the calls' parameter maps: every call's placeholder is bound to
\* the value that call gave it.
C30_ConditionsAccumulate ==
    filter_ret[2] = "self" =>
        /\ Comparisons(self_where) = ComparisonsOfCalls(filter_calls)
        /\ \A k \in 1..Len(self_where) : self_where[k].kind # "OR"
        /\ DOMAIN self_params = UNION {DOMAIN filter_calls[i].params : i \in 1..Len(filter_calls)}
        /\ \A i \in 1..Len(filter_calls) : \A n \in DOMAIN filter_calls[i].params :
                self_params[n] = filter_calls[i].params[n]

\* ------------------------------------------------------------------ update(**kwargs)
\* A keyword of update(): field, the suffix after the first "__" ("" when
\* there is none) and, for jsonb_set, the JSON key after the second "__".
UpdateKey(field, op, json_key) == [field |-> field, op |-> op, json_key |-> json_key]

\* RENDER_UPDATE_SUFFIXES: the suffixes rendered by a template of (field, value).
RENDER_UPDATE_SUFFIXES == {"jsonb_remove", "add", "sub", "mul", "div", "add_time", "sub_time"}

UpdateKeys ==
    {UpdateKey("k", "", ""), UpdateKey("name", "", ""),
     UpdateKey("score", "add", ""), UpdateKey("score", "div", ""),
     UpdateKey("ts", "add_time", ""), UpdateKey("info", "jsonb_remove", ""),
     UpdateKey("data", "jsonb", ""),
     UpdateKey("info", "jsonb_set", "k"), UpdateKey("data", "jsonb_set", "k"),
     UpdateKey("info", "jsonb_set", ""), UpdateKey("name", "bogus", "")}

\* kwargs of update(): keys distinct, values 1..MaxValue.
UpdateKwargs ==
    {kw \in UNION {[1..n -> UpdateKeys \X (1..MaxValue)] : n \in 1..MaxUpdateKws} :
        \A i, j \in 1..Len(kw) : i # j => kw[i][1] # kw[j][1]}

\* One rendered assignment of the SET clause: the field, the template, the
\* JSON key and the value written into the text (0: none), and the
\* placeholder it refers to ("": none).
Assignment(field, form, json_key, inline, ph) ==
    [field |-> field, form |-> form, json_key |-> json_key, inline |-> inline, ph |-> ph]

\* A bound value: as given, or json.dumps(value).
Plain(v) == [json |-> FALSE, v |-> v]
JsonDumps(v) == [json |-> TRUE, v |-> v]

\* self.query_param_values[name] = value
Put(params, name, value) ==
    [n \in DOMAIN params \cup {name} |-> IF n = name THEN value ELSE params[n]]

\* The placeholder of a jsonb_set assignment: f'set_{field_to_update}'.
JsonbSetPlaceholder(key) == "set_" \o key.json_key

\* One pass of the loop of update() over (key, value).
UpdateStep(st, key, value) ==
    IF key.op = "" THEN
        [st EXCEPT !.clause = Append(@, Assignment(key.field, "set", "", 0, "set_" \o key.field)),
                   !.params = Put(@, "set_" \o key.field, Plain(value))]
    ELSE IF key.op \in RENDER_UPDATE_SUFFIXES THEN
        [st EXCEPT !.clause = Append(@, Assignment(key.field, key.op, "", value, ""))]
    ELSE IF key.op = "jsonb" THEN
        [st EXCEPT !.clause = Append(@, Assignment(key.field, "jsonb", "", 0, "set_" \o key.field)),
                   !.params = Put(@, "set_" \o key.field, JsonDumps(value))]
    ELSE IF key.op = "jsonb_set" /\ key.json_key # "" THEN
        [st EXCEPT !.clause = Append(@, Assignment(key.field, "jsonb_set", key.json_key, 0,
                                                    JsonbSetPlaceholder(key))),
                   !.params = Put(@, JsonbSetPlaceholder(key), JsonDumps(value))]
    ELSE [st EXCEPT !.exc = "UnsupportedOperatorError"]

RECURSIVE UpdateLoop(_, _, _)
\* for key in kwargs.keys(): ... from entry k on; a raise ends the loop.
UpdateLoop(kwargs, st, k) ==
    IF st.exc # "none" \/ k > Len(kwargs) THEN st
    ELSE UpdateLoop(kwargs, UpdateStep(st, kwargs[k][1], kwargs[k][2]), k + 1)

\* update(**kwargs) on a builder that holds conditions.
Rendered(kwargs) == UpdateLoop(kwargs, [clause |-> <<>>, params |-> <<>>, exc |-> "none"], 1)

InitUpd ==
    /\ update_kwargs \in UpdateKwargs
    /\ set_clause = <<>>
    /\ set_params = <<>>
    /\ update_ret = "none"

\* update(**kwargs): the entries written before a raise stay in
\* query_param_values; update_clause is assigned only after the loop.
RenderUpdate ==
    /\ update_ret = "none"
    /\ set_params' = Rendered(update_kwargs).params
    /\ IF Rendered(update_kwargs).exc = "none"
       THEN set_clause' = Rendered(update_kwargs).clause /\ update_ret' = "self"
       ELSE UNCHANGED set_clause /\ update_ret' = Rendered(update_kwargs).exc
    /\ UNCHANGED update_kwargs

\* The same keywords with other values.
SameKeys(kwargs) ==
    {kw \in UpdateKwargs :
        Len(kw) = Len(kwargs) /\ \A i \in 1..Len(kw) : kw[i][1] = kwargs[i][1]}

\* C32: generated SQL is parameterized: the text of the SET clause depends
\* only on the keywords (fields and suffixes), never on the values: the same
\* update keywords with any other values render the same text and differ
\* only in the parameter map.
C32_TextIndependentOfValues ==
    update_ret = "self" =>
        \A other \in SameKeys(update_kwargs) : Rendered(other).clause = set_clause

\* The value update() was given for assignment k, as it is bound.
BoundValue(k) ==
    IF update_kwargs[k][1].op = "" THEN Plain(update_kwargs[k][2])
    ELSE JsonDumps(update_kwargs[k][2])

\* C33: every assignment of update() that binds a value gets its own
\* parameter name: as many set_* entries as value-binding assignments, each
\* bound to its assignment's value.
C33_OwnParameterPerAssignment ==
    update_ret = "self" =>
        /\ Cardinality(DOMAIN set_params) =
                Cardinality({k \in 1..Len(set_clause) : set_clause[k].ph # ""})
        /\ \A k \in 1..Len(set_clause) :
                set_clause[k].ph # "" => set_params[set_clause[k].ph] = BoundValue(k)

\* ------------------------------------------------------------------ concurrent get_or_create
\* The coroutines and the lookup keys they may ask for; no key is in the
\* table at the start.
Coroutines == 1..MaxCoroutines
LookupKeys == {1, 2}

NoResult == [kind |-> "none", created |-> FALSE, exc |-> "none"]

InitCo ==
    /\ table_rows = [k \in LookupKeys |-> 0]
    /\ unique_lookup \in BOOLEAN
    /\ co_key \in [Coroutines -> LookupKeys]
    /\ co_pc = [c \in Coroutines |-> "get"]
    /\ co_ret = [c \in Coroutines |-> NoResult]

\* obj = await self.get(**kwargs): the SELECT runs on the table as it is now;
\* DoesNotExist leads to the create, MultipleRecordsFound propagates.
CoGet ==
    \E c \in Coroutines :
        /\ co_pc[c] = "get"
        /\ IF table_rows[co_key[c]] = 0
           THEN co_pc' = [co_pc EXCEPT ![c] = "create"] /\ UNCHANGED co_ret
           ELSE /\ co_pc' = [co_pc EXCEPT ![c] = "done"]
                /\ co_ret' = [co_ret EXCEPT ![c] =
                        IF table_rows[co_key[c]] = 1
                        THEN [kind |-> "return", created |-> FALSE, exc |-> "none"]
                        ELSE [kind |-> "raise", created |-> FALSE, exc |-> "MultipleRecordsFound"]]
        /\ UNCHANGED <<table_rows, unique_lookup, co_key>>

\* obj = await self.create(**data); created = True: the INSERT runs on the
\* table as it is now; a unique violation (SQL state 23505) reaches the
\* caller as DuplicateKeyDatabaseError.
CoCreate ==
    \E c \in Coroutines :
        /\ co_pc[c] = "create"
        /\ co_pc' = [co_pc EXCEPT ![c] = "done"]
        /\ IF unique_lookup /\ table_rows[co_key[c]] > 0
           THEN /\ co_ret' = [co_ret EXCEPT ![c] =
                        [kind |-> "raise", created |-> FALSE, exc |-> "DuplicateKeyDatabaseError"]]
                /\ UNCHANGED table_rows
           ELSE /\ co_ret' = [co_ret EXCEPT ![c] = [kind |-> "return", created |-> TRUE, exc |-> "none"]]
                /\ table_rows' = [table_rows EXCEPT ![co_key[c]] = @ + 1]
        /\ UNCHANGED <<unique_lookup, co_key>>

\* C39: get_or_create is atomic with respect to concurrent callers: of the
\* coroutines that call it with the same lookup on a key that does not yet
\* exist, at most one performs the create and returns created = True, and
\* none fails with a duplicate-key error.
C39_GetOrCreateAtomic ==
    /\ \A a, b \in Coroutines :
            (a # b /\ co_key[a] = co_key[b]) => ~(co_ret[a].created /\ co_ret[b].created)
    /\ \A c \in Coroutines : co_ret[c].exc # "DuplicateKeyDatabaseError"

\* ------------------------------------------------------------------ AsyncRawQuery
\* What the connection does with the statement of a raw query: it answers
\* ("ok"), raises TypeError, raises an error without a sqlstate attribute
\* ("none"), or raises an error with a SQL state.
RawOutcomes == {"ok", "TypeError"} \cup SqlStates

\* The attributes __init__ and the methods set on an AsyncRawQuery.
RawAttributes == {"query", "read_connection", "write_connection", "values"}

\* self.<name>: AttributeError when the instance has no such attribute.
RawGetattr(name) == IF name \in RawAttributes THEN "none" ELSE "AttributeError"

\* fetch(): the except clause wraps every error that has a SQL state.
RawFetchResult(outcome) ==
    IF outcome = "ok" THEN Return(NoneVal)
    ELSE IF outcome = "TypeError" THEN Raise("TypeError")
    ELSE IF outcome = "none" THEN Raise("DriverError")
    ELSE Raise("DatabaseError")

\* execute() / execute_many(): TypeError is re-raised, an error without
\* sqlstate is re-raised, '23505' builds
\* DuplicateKeyDatabaseError(table_name=self.table, ...), any other SQL state
\* DatabaseError.
RawWriteResult(outcome) ==
    IF outcome = "ok" THEN Return(NoneVal)
    ELSE IF outcome = "TypeError" THEN Raise("TypeError")
    ELSE IF outcome = "none" THEN Raise("DriverError")
    ELSE IF outcome = DuplicateKey
         THEN (IF RawGetattr("table") = "none" THEN Raise("DuplicateKeyDatabaseError")
               ELSE Raise(RawGetattr("table")))
    ELSE Raise("DatabaseError")

InitRaw == raw_log = <<>>

RawCall(op, outcome, result) ==
    /\ Len(raw_log) < MaxRawCalls
    /\ raw_log' = Append(raw_log, [op |-> op, outcome |-> outcome, ret |-> result])

RawFetch == \E o \in RawOutcomes : RawCall("fetch", o, RawFetchResult(o))
RawExecute == \E o \in RawOutcomes : RawCall("execute", o, RawWriteResult(o))
RawExecuteMany == \E o \in RawOutcomes : RawCall("execute_many", o, RawWriteResult(o))

\* C40: AsyncRawQuery.execute and execute_many classify a failing write like
\* create() does: SQL state '23505' reaches the caller as
\* DuplicateKeyDatabaseError, any other SQL state as DatabaseError, an error
\* without SQL state or a TypeError unchanged; no other exception is produced.
C40_RawWriteClassified ==
    \A i \in 1..Len(raw_log) :
        LET call == raw_log[i]
        IN (call.op \in {"execute", "execute_many"} /\ call.outcome # "ok") =>
            /\ call.ret.kind = "raise"
            /\ call.ret.exc =
                    (IF call.outcome = "TypeError" THEN "TypeError"
                     ELSE InsertError([kind |-> "error", n |-> 0, sqlstate |-> call.outcome]).exc)

\* ------------------------------------------------------------------ statement routing
\* The two copies of the library: src/fastpg has two module-level connections,
\* test_project/fastpg takes the builder's connections from the manager.
Packages == {"src/fastpg", "test_project/fastpg"}

\* The operations that send a statement, and the statement's verb.
ReadOps == {"get", "filter", "all", "count"}
WriteOps == {"update", "delete", "create", "bulk_create", "save"}
RoutedVerb(op) ==
    CASE op \in {"get", "filter", "all"} -> "SELECT"
      [] op = "count" -> "COUNT"
      [] op \in {"update", "save"} -> "UPDATE"
      [] op = "delete" -> "DELETE"
      [] OTHER -> "INSERT"

\* A connection: its configured name and role. The module-level connections
\* of src/fastpg have no configured name (0).
NoConnection == [name |-> 0, conn_type |-> "None"]
ASYNC_CUSTOMERS_DB_READ == [name |-> 0, conn_type |-> "READ"]
ASYNC_CUSTOMERS_DB_WRITE == [name |-> 0, conn_type |-> "WRITE"]
ManagerConnection(k) == [name |-> k, conn_type |-> databases_config[k]]

InitRoute ==
    /\ package = "None"
    /\ read_connection = NoConnection
    /\ write_connection = NoConnection
    /\ used_using = FALSE
    /\ routed = <<>>
    /\ using_ret = [conn_name |-> 0, kind |-> "none", exc |-> "none", n |-> 0]

\* AsyncQuerySet(model). test_project/fastpg: self.read_connection =
\* FAST_PG.db_for_read(), self.write_connection = FAST_PG.db_for_write(), which
\* raises InvalidConnectionNameError (no builder) when no WRITE entry was
\* configured. src/fastpg: the builder holds no connection.
AsyncQuerySet ==
    /\ package = "None"
    /\ \/ /\ mgr_state = "built"
          /\ write_conn_name \in connections
          /\ package' = "test_project/fastpg"
          /\ \E i \in 1..Len(read_conn_names) :
                read_connection' = ManagerConnection(read_conn_names[i])
          /\ write_connection' = ManagerConnection(write_conn_name)
       \/ /\ package' = "src/fastpg"
          /\ UNCHANGED <<read_connection, write_connection>>
    /\ UNCHANGED <<used_using, routed, using_ret, mgrvars>>

\* A variant of using() that assigns before the lookup is known to succeed
\* (used to test C38).
UsedUnchecked(conn_name, rc) ==
    IF conn_name \in connections THEN ManagerConnection(conn_name) ELSE NoConnection

\* self.read_connection = FAST_PG.get_db_conn(conn_name): get_db_conn raises
\* InvalidConnectionNameError for an unknown name, before the assignment.
Used(conn_name, rc) ==
    IF conn_name \in connections THEN ManagerConnection(conn_name) ELSE rc

\* using(conn_name); 0 stands for a name that was never configured.
using ==
    \E conn_name \in 0..Len(databases_config) :
        /\ package = "test_project/fastpg"
        /\ using_ret.n < MaxUsing
        /\ read_connection' = Used(conn_name, read_connection)
        /\ used_using' = (used_using \/ conn_name \in connections)
        /\ using_ret' = [conn_name |-> conn_name, n |-> using_ret.n + 1,
                         kind |-> IF conn_name \in connections THEN "self" ELSE "raise",
                         exc |-> IF conn_name \in connections THEN "none"
                                 ELSE "InvalidConnectionNameError"]
        /\ UNCHANGED <<package, write_connection, routed, mgrvars>>

\* The connection the statement of operation op is handed to, for a builder
\* with read connection rc and write connection wc.
\*   test_project/fastpg: _execute_query*, count -> self.read_connection;
\*       create, bulk_create, _update, _delete, save -> self.write_connection.
\*   src/fastpg: fetch_all -> ASYNC_CUSTOMERS_DB_READ; create, bulk_create,
\*       save -> ASYNC_CUSTOMERS_DB_WRITE; _update and _delete ->
\*       ASYNC_CUSTOMERS_DB_READ.execute.
RoutedConnection(pkg, op, rc, wc) ==
    IF pkg = "test_project/fastpg" THEN IF op \in ReadOps THEN rc ELSE wc
    ELSE IF op \in ReadOps \cup {"update", "delete"} THEN ASYNC_CUSTOMERS_DB_READ
    ELSE ASYNC_CUSTOMERS_DB_WRITE

\* The resolution of operation op hands its statement to a connection.
Route ==
    \E op \in ReadOps \cup WriteOps :
        /\ package \in Packages
        /\ Len(routed) < MaxRouted
        /\ routed' = Append(routed, [op |-> op, verb |-> RoutedVerb(op), used_using |-> used_using,
                                     conn |-> RoutedConnection(package, op, read_connection, write_connection)])
        /\ UNCHANGED <<package, read_connection, write_connection, used_using, using_ret, mgrvars>>

\* C38: using(conn_name) changes only the connection of the builder's read
\* statements: the write connection stays the single WRITE connection, so the
\* write statements of that builder still go there; with an unknown name it
\* raises InvalidConnectionNameError and leaves the read connection as it was.
C38_UsingChangesReadOnly ==
    [][/\ using_ret'.n = using_ret.n + 1 =>
            /\ write_connection' = write_connection
            /\ UNCHANGED <<action, conditions, where_conditions, paging>>
            /\ IF using_ret'.conn_name \in connections
               THEN /\ using_ret'.kind = "self"
                    /\ read_connection' = ManagerConnection(using_ret'.conn_name)
               ELSE /\ using_ret'.exc = "InvalidConnectionNameError"
                    /\ read_connection' = read_connection
       /\ (Len(routed') > Len(routed) /\ using_ret.n > 0) =>
            LET r == routed'[Len(routed')]
            IN /\ r.op \in WriteOps =>
                    (r.conn = ManagerConnection(write_conn_name) /\ r.conn.conn_type = "WRITE")
               /\ r.op \in ReadOps => r.conn = read_connection]_<<routevars, qsvars>>

\* C38 witness: using() named the WRITE connection for the reads, a later
\* using() with an unknown name raised, and an update was routed afterwards.
C38_Witness ==
    /\ used_using /\ read_connection.conn_type = "WRITE"
    /\ using_ret.exc = "InvalidConnectionNameError"
    /\ \E i \in 1..Len(routed) : routed[i].op = "update" /\ routed[i].used_using

\* C29: statements are routed by kind: the statement of a get, filter, all or
\* count goes to the builder's read connection, which has role READ unless
\* using() named another one, and every UPDATE, DELETE and INSERT goes to the
\* single WRITE connection, never to a READ connection.
C29_RoutedByKind ==
    \A i \in 1..Len(routed) :
        /\ routed[i].op \in ReadOps =>
                routed[i].used_using \/ routed[i].conn.conn_type = "READ"
        /\ routed[i].verb \in {"UPDATE", "DELETE", "INSERT"} =>
                routed[i].conn.conn_type = "WRITE"

\* ------------------------------------------------------------------ specifications
vars == <<qsvars, dbvars, connvars, mgrvars, fnvars, qvars, relvars, regvars, routevars, filtvars, updvars, covars, rawvars>>

Init == InitQS /\ InitDB /\ InitConn /\ InitMgr /\ InitFn /\ InitQ /\ InitRel /\ InitReg /\ InitRoute /\ InitFilter /\ InitUpd /\ InitCo /\ InitRaw

\* The part a specification does not run is held in one fixed state.
ParkedQS == ModelMeta_relations = Relations
ParkedConn == conn_type = "READ" /\ max_retries = 0 /\ retry_delay = 1
ParkedMgr == databases_config = <<>>
ParkedFn == raw_rows = <<>>
ParkedQ == q_a = QInit(<<<<"id", 1>>>>, 0) /\ q_b = q_a
ParkedUpd == update_kwargs = <<<<UpdateKey("name", "", ""), 1>>>>
ParkedCo == unique_lookup = TRUE /\ co_key = [c \in Coroutines |-> 1]
ParkedRel == rel_args = [related_model |-> [name |-> "Profile", meta |-> {"db_table", "primary_key"}],
                         foreign_field |-> "profile_id", related_name |-> "None"]

InitService == ParkedCo /\ ParkedUpd /\ ParkedConn /\ ParkedMgr /\ ParkedFn /\ ParkedQ /\ ParkedRel /\ Init
InitDatabase == ParkedCo /\ ParkedUpd /\ ParkedQS /\ ParkedConn /\ ParkedMgr /\ ParkedFn /\ ParkedQ /\ ParkedRel /\ Init
InitConnect == ParkedCo /\ ParkedUpd /\ ParkedQS /\ ParkedMgr /\ ParkedFn /\ ParkedQ /\ ParkedRel /\ Init
InitManager == ParkedCo /\ ParkedUpd /\ ParkedQS /\ ParkedConn /\ ParkedFn /\ ParkedQ /\ ParkedRel /\ Init
InitFunctions == ParkedCo /\ ParkedUpd /\ ParkedQS /\ ParkedConn /\ ParkedMgr /\ ParkedQ /\ ParkedRel /\ Init
InitConditions == ParkedCo /\ ParkedUpd /\ ParkedQS /\ ParkedConn /\ ParkedMgr /\ ParkedFn /\ ParkedRel /\ Init
InitRelation == ParkedCo /\ ParkedUpd /\ ParkedQS /\ ParkedConn /\ ParkedMgr /\ ParkedFn /\ ParkedQ /\ Init
\* Routing runs over the configurations of at most MaxRoutedConfig entries.
RoutedConfigs == databases_config \in {cfg \in Configs : Len(cfg) <= MaxRoutedConfig}
InitRouting == RoutedConfigs /\ ParkedCo /\ ParkedUpd /\ ParkedQS /\ ParkedConn /\ ParkedFn /\ ParkedQ /\ ParkedRel /\ Init
InitFilters == ParkedCo /\ ParkedUpd /\ ParkedQS /\ ParkedConn /\ ParkedMgr /\ ParkedFn /\ ParkedQ /\ ParkedRel /\ Init
InitUpdate == ParkedCo /\ ParkedQS /\ ParkedConn /\ ParkedMgr /\ ParkedFn /\ ParkedQ /\ ParkedRel /\ Init
InitConcurrent == ParkedUpd /\ ParkedQS /\ ParkedConn /\ ParkedMgr /\ ParkedFn /\ ParkedQ /\ ParkedRel /\ Init
InitRawQuery == ParkedCo /\ ParkedUpd /\ ParkedQS /\ ParkedConn /\ ParkedMgr /\ ParkedFn /\ ParkedQ /\ ParkedRel /\ Init
InitRegistry == ParkedCo /\ ParkedUpd /\ ParkedQS /\ ParkedConn /\ ParkedMgr /\ ParkedFn /\ ParkedQ /\ ParkedRel /\ Init

OnlyQS == UNCHANGED <<dbvars, connvars, mgrvars, fnvars, qvars, relvars, regvars, routevars, filtvars, updvars, covars, rawvars>>
OnlyDB == UNCHANGED <<qsvars, connvars, mgrvars, fnvars, qvars, relvars, regvars, routevars, filtvars, updvars, covars, rawvars>>
OnlyConn == UNCHANGED <<qsvars, dbvars, mgrvars, fnvars, qvars, relvars, regvars, routevars, filtvars, updvars, covars, rawvars>>
OnlyMgr == UNCHANGED <<qsvars, dbvars, connvars, fnvars, qvars, relvars, regvars, routevars, filtvars, updvars, covars, rawvars>>
OnlyFn == UNCHANGED <<qsvars, dbvars, connvars, mgrvars, qvars, relvars, regvars, routevars, filtvars, updvars, covars, rawvars>>
OnlyQ == UNCHANGED <<qsvars, dbvars, connvars, mgrvars, fnvars, relvars, regvars, routevars, filtvars, updvars, covars, rawvars>>
OnlyRel == UNCHANGED <<qsvars, dbvars, connvars, mgrvars, fnvars, qvars, regvars, routevars, filtvars, updvars, covars, rawvars>>
OnlyRoute == UNCHANGED <<qsvars, dbvars, connvars, fnvars, qvars, relvars, regvars, filtvars, updvars, covars, rawvars>>
OnlyFilter == UNCHANGED <<qsvars, dbvars, connvars, mgrvars, fnvars, qvars, relvars, regvars, routevars, updvars, covars, rawvars>>
OnlyUpdate == UNCHANGED <<qsvars, dbvars, connvars, mgrvars, fnvars, qvars, relvars, regvars, routevars, filtvars, covars, rawvars>>
OnlyCo == UNCHANGED <<qsvars, dbvars, connvars, mgrvars, fnvars, qvars, relvars, regvars, routevars, filtvars, updvars, rawvars>>
OnlyRaw == UNCHANGED <<qsvars, dbvars, connvars, mgrvars, fnvars, qvars, relvars, regvars, routevars, filtvars, updvars, covars>>
OnlyReg == UNCHANGED <<qsvars, dbvars, connvars, mgrvars, fnvars, qvars, relvars, routevars, filtvars, updvars, covars, rawvars>>

\* The builder alone.
NextQS ==
    \/ get /\ OnlyQS
    \/ filter /\ OnlyQS
    \/ all /\ OnlyQS
    \/ count /\ OnlyQS
    \/ select_related /\ OnlyQS
    \/ return_as /\ OnlyQS
    \/ update /\ OnlyQS
    \/ delete /\ OnlyQS
    \/ await /\ OnlyQS

SpecQS == InitService /\ [][NextQS]_vars

\* create, bulk_create and get_or_create on a builder.
NextCreate ==
    \/ create /\ OnlyQS
    \/ bulk_create /\ OnlyQS
    \/ get_or_create /\ OnlyQS

\* Reads with joins and prefetches.
NextPrefetch ==
    \/ prefetch_related /\ OnlyQS
    \/ select_related /\ OnlyQS
    \/ get /\ OnlyQS
    \/ all /\ OnlyQS
    \/ count /\ OnlyQS
    \/ return_as /\ OnlyQS
    \/ await /\ OnlyQS

SpecPrefetch == InitService /\ [][NextPrefetch]_vars

SpecCreate == InitService /\ [][NextCreate]_vars

\* Q objects built from keyword filters and combined with & and |.
NextQ ==
    \/ and /\ OnlyQ
    \/ or /\ OnlyQ

SpecQ == InitConditions /\ [][NextQ]_vars

\* _denormalize_related_data on raw joined rows.
NextDenormalize == Denormalize /\ OnlyFn

SpecDenormalize == InitFunctions /\ [][NextDenormalize]_vars

\* Construction of a Relation.
NextRelation == Relation /\ OnlyRel

SpecRelation == InitRelation /\ [][NextRelation]_vars

\* The connections statements are handed to.
NextRouting ==
    \/ Construct /\ OnlyMgr
    \/ AsyncQuerySet /\ OnlyRoute
    \/ using /\ OnlyRoute
    \/ Route /\ OnlyRoute

SpecRouting == InitRouting /\ [][NextRouting]_vars

\* Successive filter() / get() calls on one builder.
NextFilters ==
    \/ FilterConditions /\ OnlyFilter
    \/ GetConditions /\ OnlyFilter

SpecFilters == InitFilters /\ [][NextFilters]_vars

\* update(**kwargs) rendering its SET clause.
NextUpdate == RenderUpdate /\ OnlyUpdate

SpecUpdate == InitUpdate /\ [][NextUpdate]_vars

\* Paging and the other calls that set no action, then a resolution.
NextPaging ==
    \/ limit /\ OnlyQS
    \/ offset /\ OnlyQS
    \/ order_by /\ OnlyQS
    \/ select_related /\ OnlyQS
    \/ prefetch_related /\ OnlyQS
    \/ return_as /\ OnlyQS
    \/ all /\ OnlyQS
    \/ await /\ OnlyQS

SpecPaging == InitService /\ [][NextPaging]_vars

\* Coroutines in get_or_create, interleaved at their awaits.
NextConcurrent ==
    \/ CoGet /\ OnlyCo
    \/ CoCreate /\ OnlyCo

SpecConcurrent == InitConcurrent /\ [][NextConcurrent]_vars

\* Calls on a raw query.
NextRawQuery ==
    \/ RawFetch /\ OnlyRaw
    \/ RawExecute /\ OnlyRaw
    \/ RawExecuteMany /\ OnlyRaw

SpecRawQuery == InitRawQuery /\ [][NextRawQuery]_vars

\* The instance registry.
NextRegistry ==
    \/ register_fastpg /\ OnlyReg
    \/ create_fastpg /\ OnlyReg
    \/ get_fastpg /\ OnlyReg
    \/ set_current_fastpg /\ OnlyReg

SpecRegistry == InitRegistry /\ [][NextRegistry]_vars

\* execute / execute_many on one connection, with the caller's transactions.
NextDB ==
    \/ CallerBegin /\ OnlyDB
    \/ CallerEnd /\ OnlyDB
    \/ ExecuteBegin /\ OnlyDB
    \/ StatementEnds /\ OnlyDB
    \/ Rollback /\ OnlyDB
    \/ Reraise /\ OnlyDB
    \/ Commit /\ OnlyDB
    \/ ReturnResult /\ OnlyDB

SpecDB == InitDatabase /\ [][NextDB]_vars

\* connect() on one connection; every awaited attempt and sleep ends.
NextConn ==
    \/ connect /\ OnlyConn
    \/ AttemptSucceeds /\ OnlyConn
    \/ AttemptFails /\ OnlyConn
    \/ SleepEnds /\ OnlyConn

SpecConn == InitConnect /\ [][NextConn]_vars /\ WF_vars(NextConn)

\* Construction of the connection manager from a configuration.
NextMgr ==
    \/ Construct /\ OnlyMgr
    \/ get_db_conn /\ OnlyMgr
    \/ db_for_read /\ OnlyMgr
    \/ db_for_write /\ OnlyMgr
    \/ connect_all /\ OnlyMgr
    \/ close /\ OnlyMgr
    \/ close_all /\ OnlyMgr

SpecMgr == InitManager /\ [][NextMgr]_vars

====
